---------------------------- MODULE Spec2Model ----------------------------
(***************************************************************************)
(* Model of the interop layer of unity3d_nav_critterai (nav-rcn / nmgen-rcn)*)
(*                                                                         *)
(*   nav-rcn/Nav/Source/DetourNavMeshBuildEx.cpp   tile wrappers, archive  *)
(*   nav-rcn/Nav/Source/DetourNavmeshEx.cpp        dtnmAddTile / RemoveTile*)
(*   nmgen-rcn/NMGen/Source/PolyMeshDetailEx.cpp   detail-mesh records     *)
(*   nmgen-rcn/NMGen/Source/PolyMeshEx.cpp         polygon-mesh records    *)
(*                                                                         *)
(* Conventions.                                                            *)
(*  - A pointer is the index of a block in `heap` (0 is the null pointer). *)
(*    Blocks are never reused: a released block stays in the heap with     *)
(*    live = FALSE, and `frees` counts how often it was handed to          *)
(*    dtFree / rcFree (0, 1, or 2 for more than once).                     *)
(*  - Buffers are sequences of cells.  Every scalar of the C structs       *)
(*    (int, long, float, dtTileRef, unsigned char) occupies one cell, so   *)
(*    all sizeof() values are counted in cells.  Offsets are 0-based as in *)
(*    the code; cell o of a buffer b is b[o+1].                            *)
(*  - int arithmetic keeps a width: ToInt wraps modulo IntMod.            *)
(*  - Reading a buffer past its end is undefined behaviour: the cell read  *)
(*    is a nondeterministic value (the action's parameter g), and the      *)
(*    highest offset touched is recorded in ret.rdEnd.                     *)
(*  - The Detour container (dtNavMesh) is a collaborator whose code is not *)
(*    part of the sources; it is modelled from its interface               *)
(*    (the operators named dt...).                                         *)
(***************************************************************************)
EXTENDS Integers, Sequences, FiniteSets, TLC

VARIABLES
    mem,        \* what the allocators can still hand out: [blocks, meshes]
    heap,       \* dtAlloc / rcAlloc blocks: Seq of [bytes, live, frees]
    tileData,   \* the caller's rcnTileData wrapper: [data, dataSize, isOwned]
    meshes,     \* dtNavMesh objects ever allocated (dtAllocNavMesh)
    ppNavMesh,  \* the caller's dtNavMesh* handle (index into meshes, 0 = null)
    buf,        \* the caller's byte buffer: [data: Seq(Int), size: Int]
    packed,     \* what buf was packed from (history variable), or NotPacked
    pd,         \* the caller's nmgPolyMeshDetail record
    pm,         \* the caller's rcPolyMesh record
    ret,        \* outcome of the last call (history variable)
    context,    \* the caller's nmgBuildContext: log switch and message arena
    flat        \* a detail mesh to flatten and the caller's output arrays

vars == <<mem, heap, tileData, meshes, ppNavMesh, buf, packed, pd, pm, ret,
          context, flat>>


--------------------------------------------------------------------------
(* Bounds of the model                                                     *)

\* Spec (tile wrapper and container)
MaxBlocks == 2      \* blocks the allocator can hand out before it is exhausted
MaxMeshes == 1      \* dtNavMesh objects dtAllocNavMesh can hand out
MaxTiles == 1       \* largest dtNavMeshParams.maxTiles the caller uses

\* SpecArchive (tile-set archives)
MaxRecords == 2     \* tile records in an input archive
MaxCut == 3         \* cells an input archive may be truncated by
ArchiveTiles == MaxRecords  \* params.maxTiles of the input archives
ArchiveBlocks == MaxRecords \* blocks the allocator can hand out

\* SpecMesh, SpecReaders (mesh records)
MaxBody == 11       \* cells of array data that follow the header in an input
MeshBlocks == 5     \* blocks the allocator can hand out

\* SpecSerialize (mesh records serialized)
MaxCapacity == 2    \* elements an array of a source record has room for

--------------------------------------------------------------------------
(* Program constants                                                       *)

RCN_NAVMESH_VERSION == 1
DT_NAVMESH_MAGIC == 7
DT_NAVMESH_VERSION == 6
DT_TILE_FREE_DATA == 1

\* sizeof(), in cells
SetHeaderSize == 4      \* rcnNavMeshSetHeader: version, tileCount, params (orig.., maxTiles)
TileHeaderSize == 2     \* rcnNavMeshTileHeader: tileRef, dataSize
MeshHeaderSize == 3     \* dtMeshHeader: magic, version, remaining fields

\* dtTileRef = salt * RefBase + tile index (encodePolyId with poly bits dropped)
RefBase == 4
SaltMod == 4

--------------------------------------------------------------------------
(* int arithmetic                                                          *)

\* The model's int is 8 bits wide (the code's is 32), so that sizes that wrap
\* are small enough to enumerate.
IntMod == 2^8

\* conversion of a mathematical integer to int (two's complement wrap)
ToInt(x) ==
    LET m == x % IntMod
    IN  IF 2 * m >= IntMod THEN m - IntMod ELSE m

Max(a, b) == IF a >= b THEN a ELSE b
Min(a, b) == IF a <= b THEN a ELSE b

\* cell at 0-based offset o of buffer data; g is what an out-of-bounds read yields
Cell(data, o, g) == IF o >= 0 /\ o < Len(data) THEN data[o + 1] ELSE g

\* memcpy(dst, &data[pos], n): the n cells starting at offset pos
CopyCells(data, pos, n, g) == [k \in 1..n |-> Cell(data, pos + k - 1, g)]

--------------------------------------------------------------------------
(* The allocator: dtAlloc / dtFree, rcAlloc / rcFree                       *)

NullPtr == 0

Block(bytes) == [bytes |-> bytes, live |-> TRUE, frees |-> 0]

\* what a block holds once released is indeterminate; the model forgets it.
\* frees saturates at 2: released more than once.
Released(b) == [bytes |-> <<>>, live |-> FALSE, frees |-> Min(b.frees + 1, 2)]

\* whether an allocation can succeed at all in heap h
CanAlloc(h) == Len(h) < mem.blocks

\* heap after a successful allocation holding bytes; the new pointer is Len(h)+1
AllocIn(h, bytes) == Append(h, Block(bytes))

\* dtFree(p) / rcFree(p): a no-op on the null pointer
FreeIn(h, p) ==
    IF p = NullPtr THEN h
    ELSE [h EXCEPT ![p] = Released(@)]

--------------------------------------------------------------------------
(* The Detour container (collaborator, modelled from its interface)       *)

TileRefOf(salt, idx) == salt * RefBase + idx
decodePolyIdTile(ref) == ref % RefBase
decodePolyIdSalt(ref) == ref \div RefBase

EmptyTile(salt) ==
    [salt |-> salt, header |-> FALSE, data |-> NullPtr, dataSize |-> 0, flags |-> 0]

\* dtAllocNavMesh(): a fresh, uninitialised dtNavMesh object
NewNavMesh ==
    [live |-> TRUE, orig |-> 0, maxTiles |-> 0, tiles |-> <<>>, nextFree |-> <<>>]

CanAllocNavMesh(ms) == Len(ms) < mem.meshes

\* dtNavMesh::init(params): every tile slot free, salt 1, free list in slot order
dtInit(m, orig, maxTiles) ==
    [m EXCEPT !.orig = orig,
              !.maxTiles = maxTiles,
              !.tiles = [i \in 1..maxTiles |-> EmptyTile(1)],
              !.nextFree = [i \in 1..maxTiles |-> i]]

\* what the container reads of a payload on insert: its dtMeshHeader
TileDataOk(bytes) ==
    /\ Len(bytes) >= MeshHeaderSize
    /\ bytes[1] = DT_NAVMESH_MAGIC
    /\ bytes[2] = DT_NAVMESH_VERSION

\* slot (1-based) dtNavMesh::addTile would use for lastRef, 0 when it fails
dtAddTileSlot(m, bytes, lastRef) ==
    IF ~TileDataOk(bytes) THEN 0
    ELSE IF lastRef = 0
         THEN (IF m.nextFree = <<>> THEN 0 ELSE Head(m.nextFree))
         ELSE LET idx == decodePolyIdTile(lastRef) + 1
              IN  IF idx > m.maxTiles THEN 0
                  ELSE IF \E k \in 1..Len(m.nextFree) : m.nextFree[k] = idx
                       THEN idx ELSE 0

RemoveFromSeq(s, x) == SelectSeq(s, LAMBDA y : y # x)

\* dtNavMesh::addTile(data, dataSize, flags, lastRef): container after a
\* successful insert into slot s (lastRef # 0 restores the salt)
dtAddTile(m, s, p, dataSize, flags, lastRef) ==
    [m EXCEPT !.nextFree = RemoveFromSeq(@, s),
              !.tiles[s] = [salt |-> IF lastRef = 0 THEN @.salt
                                     ELSE decodePolyIdSalt(lastRef),
                            header |-> TRUE, data |-> p,
                            dataSize |-> dataSize, flags |-> flags]]

\* dtNavMesh::getTileRef(tile) for slot s
dtGetTileRef(m, s) == TileRefOf(m.tiles[s].salt, s - 1)

\* dtNavMesh::getTileByRef(ref): the slot, 0 when the reference is stale
dtGetTileByRef(m, ref) ==
    IF ref = 0 THEN 0
    ELSE LET idx == decodePolyIdTile(ref) + 1
         IN  IF idx > m.maxTiles THEN 0
             ELSE IF m.tiles[idx].salt # decodePolyIdSalt(ref) THEN 0
             ELSE idx

\* slot dtNavMesh::removeTile(ref) would free, 0 when it fails
dtRemoveTileSlot(m, ref) ==
    LET s == dtGetTileByRef(m, ref)
    IN  IF s = 0 THEN 0 ELSE IF ~m.tiles[s].header THEN 0 ELSE s

NextSalt(salt) ==
    LET n == (salt + 1) % SaltMod IN IF n = 0 THEN 1 ELSE n

\* dtNavMesh::removeTile: the slot goes back to the head of the free list
dtRemoveTile(m, s) ==
    [m EXCEPT !.tiles[s] = EmptyTile(NextSalt(@.salt)),
              !.nextFree = <<s>> \o @]

\* pointers the container releases itself when tile s is removed / it is destroyed
OwnedByTile(t) == t.flags = DT_TILE_FREE_DATA /\ t.data # NullPtr

RECURSIVE FreeAll(_, _)
FreeAll(h, ps) ==
    IF ps = <<>> THEN h ELSE FreeAll(FreeIn(h, Head(ps)), Tail(ps))

\* dtFreeNavMesh(mesh): ~dtNavMesh releases the payload of every tile flagged
\* DT_TILE_FREE_DATA, then the object itself
OwnedPtrs(m) ==
    LET own == SelectSeq(m.tiles, OwnedByTile)
    IN  [k \in 1..Len(own) |-> own[k].data]

dtFreeNavMeshHeap(h, m) == FreeAll(h, OwnedPtrs(m))

dtFreeNavMeshObj(m) == [NewNavMesh EXCEPT !.live = FALSE]

LiveSlots(m) == {s \in 1..Len(m.tiles) : m.tiles[s].header /\ m.tiles[s].dataSize # 0}


--------------------------------------------------------------------------
(* Outcome of the last call                                                *)

NoRet ==
    [op |-> "none",      \* the entry point called
     ok |-> FALSE,       \* it returned true / a success status
     status |-> "NONE",  \* dtStatus detail, or FAULT when the call crashed
     pre |-> <<>>,       \* the target (wrapper / record) as it was before the call
     rdEnd |-> 0,        \* one past the highest input-buffer offset it read
     allocs |-> {},      \* blocks it allocated
     freed |-> <<>>,     \* pointers it handed to dtFree / rcFree, in order
     mesh |-> 0,         \* dtNavMesh object it allocated
     arg |-> 0]          \* a scalar argument worth remembering

--------------------------------------------------------------------------
(* Tile wrappers: DetourNavMeshBuildEx.cpp, DetourNavmeshEx.cpp            *)

EmptyTileData == [data |-> NullPtr, dataSize |-> 0, isOwned |-> FALSE]

\* payloads dtCreateNavMeshData produces: a well-formed dtMeshHeader first
CreatedPayloads ==
    { <<DT_NAVMESH_MAGIC, DT_NAVMESH_VERSION, 0>>,
      <<DT_NAVMESH_MAGIC, DT_NAVMESH_VERSION, 0, 1>> }

\* byte arrays a caller may hand to dtnmBuildTileDataRaw
RawPayloads ==
    CreatedPayloads \cup
    { <<DT_NAVMESH_MAGIC + 1, DT_NAVMESH_VERSION, 0>>,
      <<DT_NAVMESH_MAGIC>> }

\* a call that crashed (status FAULT) ended the process: nothing runs after it
Running == ret.status # "FAULT"

\* the caller's handle names a container that still exists
HandleLive == IF ppNavMesh = 0 THEN FALSE ELSE meshes[ppNavMesh].live

\* the caller never passes a handle to a destroyed container
HandleUsable == IF ppNavMesh = 0 THEN TRUE ELSE meshes[ppNavMesh].live

\* a write-once test that lets an owned wrapper be overwritten; C9 fails with it
HoldsUnownedData(td) == td.data # NullPtr /\ ~td.isOwned

\* "resultData->data": the wrapper already has data in it
HoldsData(td) == td.data # NullPtr

\* dtnmBuildTileData(params, resultData); dtCreateNavMeshData either fails
\* leaving *outData alone or allocates the payload
dtnmBuildTileData(params, bytes, createOk) ==
    LET td == tileData
        r0 == [NoRet EXCEPT !.op = "dtnmBuildTileData", !.pre = td]
    IN  IF params = NullPtr \/ HoldsData(td)
        THEN /\ ret' = [r0 EXCEPT !.status = "FALSE"]
             /\ UNCHANGED <<heap, tileData>>
        ELSE IF createOk /\ CanAlloc(heap)
        THEN /\ heap' = AllocIn(heap, bytes)
             /\ tileData' =
                    [data |-> Len(heap) + 1, dataSize |-> Len(bytes),
                     isOwned |-> FALSE]
             /\ ret' = [r0 EXCEPT !.ok = TRUE, !.status = "TRUE",
                                  !.allocs = {Len(heap) + 1}]
        ELSE /\ tileData' = [tileData EXCEPT !.isOwned = FALSE]
             /\ ret' = [r0 EXCEPT !.status = "FALSE"]
             /\ UNCHANGED heap

\* dtnmBuildTileDataRaw(data, dataSize, resultData); hasData: data is not null
dtnmBuildTileDataRaw(hasData, data, allocOk) ==
    LET td == tileData
        r0 == [NoRet EXCEPT !.op = "dtnmBuildTileDataRaw", !.pre = td]
    IN  IF ~hasData \/ HoldsData(td)
        THEN /\ ret' = [r0 EXCEPT !.status = "FALSE"]
             /\ UNCHANGED <<heap, tileData>>
        ELSE IF ~(allocOk /\ CanAlloc(heap))
        THEN /\ ret' = [r0 EXCEPT !.status = "FALSE"]
             /\ UNCHANGED <<heap, tileData>>
        ELSE /\ heap' = AllocIn(heap, CopyCells(data, 0, Len(data), 0))
             /\ tileData' =
                    [data |-> Len(heap) + 1, dataSize |-> Len(data),
                     isOwned |-> FALSE]
             /\ ret' = [r0 EXCEPT !.ok = TRUE, !.status = "TRUE",
                                  !.allocs = {Len(heap) + 1}]

\* an early return that ignores the ownership tag; C3 fails with it
SkipsOnlyEmpty(td) == td.data = NullPtr

\* the early return of dtnmFreeTileData: nothing to release, or not ours
SkipsFree(td) == td.data = NullPtr \/ td.isOwned

\* dtnmFreeTileData(tileData)
dtnmFreeTileData ==
    LET td == tileData
        r0 == [NoRet EXCEPT !.op = "dtnmFreeTileData", !.pre = td]
    IN  IF SkipsFree(td)
        THEN /\ ret' = r0
             /\ UNCHANGED <<heap, tileData>>
        ELSE /\ heap' = FreeIn(heap, td.data)
             /\ tileData' = [tileData EXCEPT !.data = NullPtr, !.dataSize = 0]
             /\ ret' = [r0 EXCEPT !.freed = <<td.data>>]

\* dtnmAddTile(navMesh, tileData, lastRef, resultRef)
dtnmAddTile(lastRef) ==
    LET td == tileData
        r0 == [NoRet EXCEPT !.op = "dtnmAddTile", !.pre = td,
                            !.arg = lastRef]
    IN  IF ppNavMesh = 0 \/ td.data = NullPtr \/ td.dataSize < 1 \/ td.isOwned
        THEN /\ ret' = [r0 EXCEPT !.status = "INVALID_PARAM"]
             /\ UNCHANGED <<tileData, meshes>>
        ELSE LET m == meshes[ppNavMesh]
                 s == dtAddTileSlot(m, heap[td.data].bytes, lastRef)
             IN  IF s = 0
                 THEN /\ ret' = [r0 EXCEPT !.status = "FAILURE"]
                      /\ UNCHANGED <<tileData, meshes>>
                 ELSE /\ meshes' = [meshes EXCEPT ![ppNavMesh] =
                            dtAddTile(m, s, td.data, td.dataSize,
                                      DT_TILE_FREE_DATA, lastRef)]
                      /\ tileData' = [tileData EXCEPT !.isOwned = TRUE]
                      /\ ret' = [r0 EXCEPT !.ok = TRUE, !.status = "SUCCESS"]

\* dtnmRemoveTile(navMesh, ref, data, dataSize); wantData: data is not null
dtnmRemoveTile(ref, wantData) ==
    LET r0 == [NoRet EXCEPT !.op = "dtnmRemoveTile", !.arg = ref]
    IN  IF ppNavMesh = 0
        THEN /\ ret' = [r0 EXCEPT !.status = "INVALID_PARAM"]
             /\ UNCHANGED <<heap, meshes>>
        ELSE LET m == meshes[ppNavMesh]
                 s == dtRemoveTileSlot(m, ref)
             IN  IF s = 0
                 THEN /\ ret' = [r0 EXCEPT !.status = "INVALID_PARAM"]
                      /\ UNCHANGED <<heap, meshes>>
                 ELSE LET t == m.tiles[s]
                          \* removeTile releases what the container owns and
                          \* hands back the rest
                          tData == IF OwnedByTile(t) THEN NullPtr ELSE t.data
                          h1 == IF OwnedByTile(t) THEN FreeIn(heap, t.data) ELSE heap
                          drop == ~wantData /\ tData # NullPtr
                      IN  /\ meshes' = [meshes EXCEPT ![ppNavMesh] = dtRemoveTile(m, s)]
                          /\ heap' = IF drop THEN FreeIn(h1, tData) ELSE h1
                          /\ ret' = [r0 EXCEPT
                                !.ok = TRUE, !.status = "SUCCESS",
                                !.freed = (IF OwnedByTile(t) THEN <<t.data>> ELSE <<>>)
                                          \o (IF drop THEN <<tData>> ELSE <<>>)]

\* dtnmInitTiledNavMesh(params, ppNavMesh)
dtnmInitTiledNavMesh(params, orig, maxTiles, initOk) ==
    LET r0 == [NoRet EXCEPT !.op = "dtnmInitTiledNavMesh"]
    IN  IF params = NullPtr
        THEN /\ ret' = [r0 EXCEPT !.status = "INVALID_PARAM"]
             /\ UNCHANGED <<meshes, ppNavMesh>>
        ELSE IF ~CanAllocNavMesh(meshes)
        THEN /\ ret' = [r0 EXCEPT !.status = "OUT_OF_MEMORY"]
             /\ UNCHANGED <<meshes, ppNavMesh>>
        ELSE IF ~initOk
        THEN /\ meshes' = Append(meshes, dtFreeNavMeshObj(NewNavMesh))
             /\ ret' = [r0 EXCEPT !.status = "FAILURE", !.mesh = Len(meshes) + 1]
             /\ UNCHANGED ppNavMesh
        ELSE /\ meshes' = Append(meshes, dtInit(NewNavMesh, orig, maxTiles))
             /\ ppNavMesh' = Len(meshes) + 1
             /\ ret' = [r0 EXCEPT !.ok = TRUE, !.status = "SUCCESS",
                                  !.mesh = Len(meshes) + 1]

\* the tile loop of dtnmFreeNavMesh (freeTiles): slots in order; a payload the
\* container does not own comes back from removeTile and is released here
RECURSIVE FreeTilesLoop(_, _, _)
FreeTilesLoop(i, m, st) ==
    IF i > m.maxTiles THEN [m |-> m, heap |-> st.heap, freed |-> st.freed]
    ELSE LET t == m.tiles[i]
         IN  IF ~t.header \/ t.dataSize = 0
             THEN FreeTilesLoop(i + 1, m, st)
             ELSE LET s == dtRemoveTileSlot(m, dtGetTileRef(m, i))
                  IN  IF s = 0 THEN FreeTilesLoop(i + 1, m, st)
                      ELSE FreeTilesLoop(i + 1, dtRemoveTile(m, s),
                              [heap |-> FreeIn(st.heap, t.data),
                               freed |-> Append(st.freed, t.data)])

\* dtnmFreeNavMesh(pNavMesh, freeTiles); pp = FALSE: pNavMesh itself is null.
\* The guard !pNavMesh && !(*pNavMesh) dereferences a null pNavMesh, and lets a
\* null *pNavMesh through.
dtnmFreeNavMesh(pp, freeTiles) ==
    LET r0 == [NoRet EXCEPT !.op = "dtnmFreeNavMesh", !.pre = ppNavMesh,
                            !.arg = IF freeTiles THEN 1 ELSE 0]
    IN  IF ~pp
        THEN /\ ret' = [r0 EXCEPT !.status = "FAULT", !.pre = 0]
             /\ UNCHANGED <<heap, meshes>>
        ELSE IF ppNavMesh = 0
        THEN /\ ret' = [r0 EXCEPT !.status = IF freeTiles THEN "FAULT" ELSE "DONE"]
             /\ UNCHANGED <<heap, meshes>>
        ELSE LET m == meshes[ppNavMesh]
                 l == IF freeTiles
                      THEN FreeTilesLoop(1, m, [heap |-> heap, freed |-> <<>>])
                      ELSE [m |-> m, heap |-> heap, freed |-> <<>>]
             IN  /\ heap' = dtFreeNavMeshHeap(l.heap, l.m)
                 /\ meshes' = [meshes EXCEPT ![ppNavMesh] = dtFreeNavMeshObj(l.m)]
                 /\ ret' = [r0 EXCEPT !.status = "DONE",
                                      !.freed = l.freed \o OwnedPtrs(l.m)]

--------------------------------------------------------------------------
(* Spec: tile wrappers and one container                                   *)

Refs == {0} \cup {TileRefOf(s, i) : s \in 1..(SaltMod - 1), i \in 0..(MaxTiles - 1)}

EmptyPd ==
    [meshes |-> NullPtr, verts |-> NullPtr, tris |-> NullPtr,
     nmeshes |-> 0, nverts |-> 0, ntris |-> 0,
     maxmeshes |-> 0, maxverts |-> 0, maxtris |-> 0, resourcetype |-> 0]

\* rcPolyMesh: geom is bmin[3], bmax[3], cs, ch; tail is the cell that follows
\* borderSize in memory
EmptyPm ==
    [verts |-> NullPtr, polys |-> NullPtr, regs |-> NullPtr, flags |-> NullPtr,
     areas |-> NullPtr, nverts |-> 0, npolys |-> 0, maxpolys |-> 0, nvp |-> 0,
     geom |-> <<0, 0, 0, 0, 0, 0, 0, 0>>, borderSize |-> 0, tail |-> 0]

NoBuf == [data |-> <<>>, size |-> 0]

\* no build context and no mesh to flatten: the calls on them are not made
NoContext == [present |-> FALSE]
NoFlat == [present |-> FALSE]
NotPacked == [valid |-> FALSE, orig |-> 0, maxTiles |-> 0, tiles |-> <<>>]

Init ==
    /\ mem = [blocks |-> MaxBlocks, meshes |-> MaxMeshes]
    /\ heap = <<>>
    /\ tileData = EmptyTileData
    /\ meshes = <<>>
    /\ ppNavMesh = 0
    /\ buf = NoBuf
    /\ packed = NotPacked
    /\ pd = EmptyPd
    /\ pm = EmptyPm
    /\ ret = NoRet
    /\ context = NoContext
    /\ flat = NoFlat

BuildTileData ==
    /\ Running
    /\ \E params \in {NullPtr, 1},
          bytes \in CreatedPayloads, createOk \in BOOLEAN :
          dtnmBuildTileData(params, bytes, createOk)
    /\ UNCHANGED <<mem, meshes, ppNavMesh, buf, packed, pd, pm, context, flat>>

BuildTileDataRaw ==
    /\ Running
    /\ \E hasData \in BOOLEAN, data \in RawPayloads,
          allocOk \in BOOLEAN :
          dtnmBuildTileDataRaw(hasData, data, allocOk)
    /\ UNCHANGED <<mem, meshes, ppNavMesh, buf, packed, pd, pm, context, flat>>

FreeTileData ==
    /\ Running
    /\ dtnmFreeTileData
    /\ UNCHANGED <<mem, meshes, ppNavMesh, buf, packed, pd, pm, context, flat>>

AddTile ==
    /\ Running
    /\ HandleUsable
    /\ \E lastRef \in Refs : dtnmAddTile(lastRef)
    /\ UNCHANGED <<mem, heap, ppNavMesh, buf, packed, pd, pm, context, flat>>

RemoveTile ==
    /\ Running
    /\ HandleUsable
    /\ \E ref \in Refs, wantData \in BOOLEAN : dtnmRemoveTile(ref, wantData)
    /\ UNCHANGED <<mem, tileData, ppNavMesh, buf, packed, pd, pm, context, flat>>

InitTiledNavMesh ==
    /\ Running
    /\ ~HandleLive
    /\ \E params \in {NullPtr, 1}, maxTiles \in 1..MaxTiles, initOk \in BOOLEAN :
          dtnmInitTiledNavMesh(params, 0, maxTiles, initOk)
    /\ UNCHANGED <<mem, heap, tileData, buf, packed, pd, pm, context, flat>>

FreeNavMesh ==
    /\ Running
    /\ HandleUsable
    /\ \E pp \in BOOLEAN, freeTiles \in BOOLEAN : dtnmFreeNavMesh(pp, freeTiles)
    /\ UNCHANGED <<mem, tileData, ppNavMesh, buf, packed, pd, pm, context, flat>>

Next ==
    \/ BuildTileData
    \/ BuildTileDataRaw
    \/ FreeTileData
    \/ AddTile
    \/ RemoveTile
    \/ InitTiledNavMesh
    \/ FreeNavMesh

Spec == Init /\ [][Next]_vars


--------------------------------------------------------------------------
(* Properties of the tile wrappers (Spec)                                  *)

TileBuilders == {"dtnmBuildTileData", "dtnmBuildTileDataRaw"}

\* no block was handed to dtFree more than once
ReleasedAtMostOnce == \A p \in 1..Len(heap) : heap[p].frees <= 1

\* C3: tile payload ownership.  Over any sequence of dtnmBuildTileData /
\* dtnmBuildTileDataRaw, dtnmAddTile, dtnmRemoveTile, dtnmFreeTileData and
\* dtnmFreeNavMesh on one wrapper and one container, no payload is released
\* more than once; a successful dtnmAddTile marks the wrapper owned;
\* dtnmFreeTileData on an owned wrapper changes nothing and releases nothing;
\* dtnmAddTile on an owned wrapper is rejected; a failed dtnmAddTile leaves the
\* wrapper as it was; dtnmFreeTileData on a wrapper that holds a payload and is
\* not owned releases that payload and empties the wrapper.
C3_TilePayloadOwnership ==
    /\ ReleasedAtMostOnce
    /\ (ret.op = "dtnmAddTile" /\ ret.ok) =>
            /\ tileData.isOwned
            /\ tileData.data = ret.pre.data
            /\ tileData.dataSize = ret.pre.dataSize
    /\ (ret.op = "dtnmAddTile" /\ ret.pre.isOwned) => ~ret.ok
    /\ (ret.op = "dtnmAddTile" /\ ~ret.ok) => tileData = ret.pre
    /\ (ret.op = "dtnmFreeTileData" /\ ret.pre.isOwned) =>
            /\ tileData = ret.pre
            /\ ret.freed = <<>>
    /\ (ret.op = "dtnmFreeTileData" /\ ~ret.pre.isOwned /\ ret.pre.data # NullPtr) =>
            /\ ret.freed = <<ret.pre.data>>
            /\ heap[ret.pre.data].frees = 1
            /\ tileData = EmptyTileData

\* dtnmFreeTileData was called on an owned wrapper whose payload the container
\* had already released
C3_FreeAfterContainerRelease ==
    /\ ret.op = "dtnmFreeTileData"
    /\ ret.pre.isOwned
    /\ ret.pre.data # NullPtr
    /\ heap[ret.pre.data].frees = 1

\* C9: write-once tile wrappers.  dtnmBuildTileData and dtnmBuildTileDataRaw
\* return false, allocate nothing and leave the wrapper unchanged whenever it
\* already holds a payload, owned or not; when they succeed the wrapper was
\* empty and now holds the freshly allocated payload, its size, and is not owned.
C9_WriteOnceTileWrappers ==
    /\ (ret.op \in TileBuilders /\ ret.pre.data # NullPtr) =>
            /\ ~ret.ok
            /\ tileData = ret.pre
            /\ ret.allocs = {}
    /\ (ret.op \in TileBuilders /\ ret.ok) =>
            /\ ret.pre.data = NullPtr
            /\ ret.allocs = {tileData.data}
            /\ heap[tileData.data].live
            /\ tileData.dataSize = Len(heap[tileData.data].bytes)
            /\ ~tileData.isOwned

\* a build was attempted on a wrapper whose payload a container owns
C9_BuildOnOwnedWrapper ==
    /\ ret.op \in TileBuilders
    /\ ret.pre.data # NullPtr
    /\ ret.pre.isOwned


--------------------------------------------------------------------------
(* Tile-set archive: DetourNavMeshBuildEx.cpp                              *)

\* a version test that accepts every version; C4 fails with it
AnyVersion(version, expected) == TRUE

\* header.version != <expected> is false
VersionOk(version, expected) == version = expected

\* conversion of an int to size_t (the comparison dataSize < sizeof(...))
ToSizeT(x) == x % IntMod

\* One iteration state of the tile loop of dtnmBuildDTNavMeshFromRaw:
\*   pos, the container m, the heap, blocks allocated so far, read high-water
\*   mark, and how many more payload allocations succeed (budget).
\* Returns the state at loop exit with ok / status set.
RECURSIVE ReadTiles(_, _, _, _, _, _)
ReadTiles(i, tileCount, data, flags, g, st) ==
    IF i >= tileCount THEN [st EXCEPT !.ok = TRUE, !.status = "SUCCESS"]
    ELSE
    LET tileRef == Cell(data, st.pos, g)
        size == Cell(data, st.pos + 1, g)
        pos1 == st.pos + TileHeaderSize
        rd1 == Max(st.rdEnd, pos1)
    IN  IF tileRef = 0 \/ size = 0
        THEN [st EXCEPT !.ok = FALSE, !.status = "INVALID_PARAM",
                        !.pos = pos1, !.rdEnd = rd1]
        ELSE IF size < 0 \/ st.budget = 0 \/ ~CanAlloc(st.heap)
        THEN [st EXCEPT !.ok = FALSE, !.status = "OUT_OF_MEMORY",
                        !.pos = pos1, !.rdEnd = rd1]
        ELSE
        LET bytes == CopyCells(data, pos1, size, g)
            p == Len(st.heap) + 1
            h1 == AllocIn(st.heap, bytes)
            pos2 == pos1 + size
            s == dtAddTileSlot(st.m, bytes, tileRef)
            st1 == [st EXCEPT !.pos = pos2, !.rdEnd = Max(rd1, pos2),
                              !.heap = h1, !.allocs = @ \cup {p},
                              !.budget = @ - 1]
        IN  IF s = 0
            THEN [st1 EXCEPT !.ok = FALSE, !.status = "ADD_FAILURE"]
            ELSE ReadTiles(i + 1, tileCount, data, flags, g,
                    [st1 EXCEPT !.m = dtAddTile(st.m, s, p, size, flags, tileRef)])

\* a failure path that hands the partially built container back; C2 fails with it
HandleKeepsPartial(mid) == mid

\* *ppNavMesh after a failure detected past the argument check
HandleOnFailure(mid) == 0

\* dtnmBuildDTNavMeshFromRaw(data, dataSize, safeStorage, ppNavMesh) applied to
\* buffer b with handle pp, heap h and container objects ms: what it returns and
\* leaves behind.  navOk / initOk: dtAllocNavMesh / dtNavMesh::init succeed;
\* budget: payload allocations that succeed before one fails; g: what a read
\* past the end of the buffer yields.
BuildFromRaw(b, pp, h, ms, hasData, safeStorage, navOk, initOk, budget, g) ==
    LET data == b.data
        mid == Len(ms) + 1
        r0 == [NoRet EXCEPT !.op = "dtnmBuildDTNavMeshFromRaw",
                            !.pre = pp,
                            !.arg = [hasData |-> hasData, safeStorage |-> safeStorage]]
        r1 == [r0 EXCEPT !.rdEnd = SetHeaderSize]
        version == Cell(data, 0, g)
        tileCount == Cell(data, 1, g)
        orig == Cell(data, 2, g)
        maxTiles == Cell(data, 3, g)
        flags == IF safeStorage THEN DT_TILE_FREE_DATA ELSE 0
        l == ReadTiles(0, tileCount, data, flags, g,
                [ok |-> FALSE, status |-> "NONE", pos |-> SetHeaderSize,
                 m |-> dtInit(NewNavMesh, orig, maxTiles), heap |-> h,
                 allocs |-> {}, rdEnd |-> SetHeaderSize, budget |-> budget])
        r2 == [r1 EXCEPT !.mesh = mid, !.rdEnd = l.rdEnd,
                         !.allocs = l.allocs, !.status = l.status]
    IN  IF ~hasData \/ ToSizeT(b.size) < SetHeaderSize
        THEN [ret |-> [r0 EXCEPT !.status = "INVALID_PARAM"],
              heap |-> h, meshes |-> ms, pp |-> pp]
        ELSE IF ~VersionOk(version, RCN_NAVMESH_VERSION)
        THEN [ret |-> [r1 EXCEPT !.status = "WRONG_VERSION"],
              heap |-> h, meshes |-> ms, pp |-> HandleOnFailure(0)]
        ELSE IF ~(navOk /\ CanAllocNavMesh(ms))
        THEN [ret |-> [r1 EXCEPT !.status = "OUT_OF_MEMORY"],
              heap |-> h, meshes |-> ms, pp |-> HandleOnFailure(0)]
        ELSE IF ~initOk
        THEN \* mesh->init failed: the object is not released
             [ret |-> [r1 EXCEPT !.status = "INIT_FAILURE", !.mesh = mid],
              heap |-> h, meshes |-> Append(ms, NewNavMesh),
              pp |-> HandleOnFailure(mid)]
        ELSE IF ~l.ok
        THEN [ret |-> [r2 EXCEPT !.freed = OwnedPtrs(l.m)],
              heap |-> dtFreeNavMeshHeap(l.heap, l.m),
              meshes |-> Append(ms, dtFreeNavMeshObj(l.m)),
              pp |-> HandleOnFailure(mid)]
        ELSE [ret |-> [r2 EXCEPT !.ok = TRUE],
              heap |-> l.heap, meshes |-> Append(ms, l.m), pp |-> mid]

dtnmBuildDTNavMeshFromRaw(hasData, safeStorage, navOk, initOk, budget, g) ==
    LET u == BuildFromRaw(buf, ppNavMesh, heap, meshes,
                          hasData, safeStorage, navOk, initOk, budget, g)
    IN  /\ ret' = u.ret
        /\ heap' = u.heap
        /\ meshes' = u.meshes
        /\ ppNavMesh' = u.pp

\* tileHeaders[] of dtnmGetNavMeshRawData: entry k (1-based) is written from
\* slot k, whatever the number of live slots before it; an entry whose slot is
\* empty is never initialised (g), and a live slot beyond tileCount is written
\* outside the array.
PackTileHeaders(m, tileCount, g) ==
    [k \in 1..tileCount |->
        IF k <= m.maxTiles /\ k \in LiveSlots(m)
        THEN [tileRef |-> dtGetTileRef(m, k), dataSize |-> m.tiles[k].dataSize]
        ELSE [tileRef |-> g, dataSize |-> g]]

\* the records written after the top header: header k, then dataSize cells of
\* the tile getTileByRef(tileRef) finds
RECURSIVE PackRecords(_, _, _, _)
PackRecords(m, ths, h, g) ==
    IF ths = <<>> THEN <<>>
    ELSE LET th == Head(ths)
             s == dtGetTileByRef(m, th.tileRef)
         IN  <<th.tileRef, th.dataSize>>
             \o CopyCells(h[m.tiles[s].data].bytes, 0, th.dataSize, g)
             \o PackRecords(m, Tail(ths), h, g)

\* snapshot of the container a buffer was packed from
Snapshot(m, h) ==
    [valid |-> TRUE, orig |-> m.orig, maxTiles |-> m.maxTiles,
     tiles |-> [s \in 1..m.maxTiles |->
        IF s \in LiveSlots(m)
        THEN [live |-> TRUE, ref |-> dtGetTileRef(m, s),
              bytes |-> h[m.tiles[s].data].bytes]
        ELSE [live |-> FALSE, ref |-> 0, bytes |-> <<>>]]]

\* dtnmGetNavMeshRawData(navMesh, resultData, dataSize); allocOk: dtAlloc
\* succeeds (its result is not checked)
dtnmGetNavMeshRawData(allocOk, g) ==
    LET r0 == [NoRet EXCEPT !.op = "dtnmGetNavMeshRawData",
                            !.arg = [allocOk |-> allocOk, written |-> 0]]
    IN  IF ppNavMesh = 0
        THEN /\ buf' = NoBuf
             /\ packed' = NotPacked
             /\ ret' = r0
        ELSE
        LET m == meshes[ppNavMesh]
            tileCount == Cardinality(LiveSlots(m))
            ths == PackTileHeaders(m, tileCount, g)
            sizes == [s \in 1..m.maxTiles |->
                        IF s \in LiveSlots(m) THEN m.tiles[s].dataSize ELSE 0]
            SumTo[k \in 0..m.maxTiles] ==
                IF k = 0 THEN 0 ELSE ToInt(SumTo[k - 1] + sizes[k])
            totalDataSize ==
                ToInt(SumTo[m.maxTiles] + SetHeaderSize + TileHeaderSize * tileCount)
            stale == \E k \in 1..tileCount : dtGetTileByRef(m, ths[k].tileRef) = 0
            bad == \E k \in 1..tileCount : ths[k].dataSize < 0
        IN  IF ~allocOk \/ stale \/ bad
            THEN \* null result of dtAlloc or of getTileByRef is dereferenced
                 /\ ret' = [r0 EXCEPT !.status = "FAULT"]
                 /\ UNCHANGED <<buf, packed>>
            ELSE
            LET out == <<RCN_NAVMESH_VERSION, tileCount, m.orig, m.maxTiles>>
                       \o PackRecords(m, ths, heap, g)
            IN  \* the block is totalDataSize cells; cells never written keep
                \* what the allocator left there, writes past its end are lost
                /\ buf' = [data |-> [k \in 1..totalDataSize |->
                                        IF k <= Len(out) THEN out[k] ELSE g],
                           size |-> totalDataSize]
                /\ packed' = Snapshot(m, heap)
                /\ ret' = [r0 EXCEPT !.ok = TRUE, !.status = "DONE",
                                     !.arg.written = Len(out)]

\* a magic test that accepts every buffer; C28 fails with it
AnyMagic(magic) == TRUE

\* "header->magic != DT_NAVMESH_MAGIC", negated
MagicOk(magic) == magic = DT_NAVMESH_MAGIC

\* dtnmGetTileDataHeader(data, dataSize, resultHeader) applied to the caller's
\* buffer; ret.pre is the header the caller gets back (<<>>: untouched)
dtnmGetTileDataHeader(hasData, hasResult, g) ==
    LET data == buf.data
        r0 == [NoRet EXCEPT !.op = "dtnmGetTileDataHeader",
                            !.arg = [hasData |-> hasData, hasResult |-> hasResult]]
    IN  IF ~hasData \/ buf.size = 0 \/ ~hasResult
        THEN ret' = [r0 EXCEPT !.status = "INVALID_PARAM"]
        ELSE IF ~MagicOk(Cell(data, 0, g))
        THEN ret' = [r0 EXCEPT !.status = "WRONG_MAGIC", !.rdEnd = 1]
        ELSE IF Cell(data, 1, g) # DT_NAVMESH_VERSION
        THEN ret' = [r0 EXCEPT !.status = "WRONG_VERSION", !.rdEnd = 2]
        ELSE ret' = [r0 EXCEPT !.ok = TRUE, !.status = "SUCCESS",
                               !.rdEnd = MeshHeaderSize,
                               !.pre = CopyCells(data, 0, MeshHeaderSize, g)]


--------------------------------------------------------------------------
(* SpecArchive: archives packed from and unpacked into containers         *)

\* what a read past the end of a buffer, or of memory never written, yields
Garbage == {0, TileRefOf(1, 1)}

PayloadA == <<DT_NAVMESH_MAGIC, DT_NAVMESH_VERSION, 0>>
PayloadB == <<DT_NAVMESH_MAGIC, DT_NAVMESH_VERSION, 1, 1>>
PayloadBad == <<DT_NAVMESH_MAGIC + 1, DT_NAVMESH_VERSION, 0>>

\* tile records of the input archives: well-formed ones for slots 0 and 1, one
\* with a zero reference, one with a zero size, one the container rejects
InputRecords ==
    { <<TileRefOf(1, 0), Len(PayloadA)>> \o PayloadA,
      <<TileRefOf(1, 1), Len(PayloadB)>> \o PayloadB,
      <<0, Len(PayloadA)>> \o PayloadA,
      <<TileRefOf(1, 0), 0>>,
      <<TileRefOf(1, 1), Len(PayloadBad)>> \o PayloadBad }

RECURSIVE Concat(_)
Concat(ss) == IF ss = <<>> THEN <<>> ELSE Head(ss) \o Concat(Tail(ss))

RecordLists == UNION { [1..n -> InputRecords] : n \in 0..MaxRecords }

OrigOfInputs == 5

\* archives whose tileCount is the number of records that follow, possibly
\* truncated by up to MaxCut cells, and one of a foreign version
InputArchives ==
    { LET full == <<RCN_NAVMESH_VERSION, Len(rs), OrigOfInputs, ArchiveTiles>>
                    \o Concat(rs)
      IN  SubSeq(full, 1, Len(full) - c) : rs \in RecordLists, c \in 0..MaxCut }
    \cup { <<RCN_NAVMESH_VERSION + 1, 1, OrigOfInputs, ArchiveTiles,
             TileRefOf(1, 0), Len(PayloadA)>> \o PayloadA }

\* single tile payloads, whole or cut short, and an empty buffer
InputTiles ==
    { SubSeq(p, 1, n) : p \in {PayloadA, PayloadBad,
                               <<DT_NAVMESH_MAGIC, DT_NAVMESH_VERSION + 1, 0>>},
                        n \in 0..MeshHeaderSize }

\* the signed size argument of a call made with a negative dataSize
NegativeSize == 0 - 1

\* buffers handed over with a negative dataSize: a whole archive of one tile,
\* and a single cell
SignedSizeInputs ==
    { <<RCN_NAVMESH_VERSION, 1, OrigOfInputs, ArchiveTiles,
        TileRefOf(1, 0), Len(PayloadA)>> \o PayloadA,
      <<RCN_NAVMESH_VERSION + 1>> }

InitArchive ==
    /\ mem = [blocks |-> ArchiveBlocks, meshes |-> MaxMeshes]
    /\ heap = <<>>
    /\ tileData = EmptyTileData
    /\ meshes = <<>>
    /\ ppNavMesh = 0
    /\ \/ \E d \in InputArchives \cup InputTiles :
             buf = [data |-> d, size |-> Len(d)]
       \/ \E d \in SignedSizeInputs : buf = [data |-> d, size |-> NegativeSize]
    /\ packed = NotPacked
    /\ pd = EmptyPd
    /\ pm = EmptyPm
    /\ ret = NoRet
    /\ context = NoContext
    /\ flat = NoFlat

\* what goes wrong in the environment of one call, at most one thing: the
\* caller passes no buffer, dtAllocNavMesh or init fails, or the payload
\* allocation after `budget` successful ones fails
Faults == {"none", "data", "nav", "init", "alloc"}

BuildDTNavMeshFromRaw ==
    /\ Running
    /\ ~HandleLive
    /\ \E safeStorage \in BOOLEAN, f \in Faults, g \in Garbage :
          \E budget \in (IF f = "alloc" THEN 0..MaxRecords ELSE {MaxRecords + 1}) :
             dtnmBuildDTNavMeshFromRaw(f # "data", safeStorage, f # "nav",
                                       f # "init", budget, g)
    /\ UNCHANGED <<mem, tileData, buf, packed, pd, pm, context, flat>>

GetNavMeshRawData ==
    /\ Running
    /\ HandleUsable
    /\ \E allocOk \in BOOLEAN, g \in Garbage : dtnmGetNavMeshRawData(allocOk, g)
    /\ UNCHANGED <<mem, heap, tileData, meshes, ppNavMesh, pd, pm, context, flat>>

\* dtnmGetTileDataHeader reads nothing but its arguments: the caller inspects
\* a buffer before anything is loaded from it
GetTileDataHeader ==
    /\ Running
    /\ meshes = <<>>
    /\ \E hasData \in BOOLEAN, hasResult \in BOOLEAN, g \in Garbage :
          dtnmGetTileDataHeader(hasData, hasResult, g)
    /\ UNCHANGED <<mem, heap, tileData, meshes, ppNavMesh, buf, packed, pd, pm, context, flat>>

NextArchive ==
    \/ BuildDTNavMeshFromRaw
    \/ GetNavMeshRawData
    \/ GetTileDataHeader
    \/ FreeNavMesh

SpecArchive == InitArchive /\ [][NextArchive]_vars


--------------------------------------------------------------------------
(* Mesh records: PolyMeshDetailEx.cpp, PolyMeshEx.cpp                      *)

NMG_ALLOC_TYPE_EXTERN == 0
NMG_ALLOC_TYPE_LOCAL == 1
NMG_ALLOC_TYPE_MANAGED_LOCAL == 2

NMG_POLYMESHDETAIL_VERSION == 1
NMG_POLYMESH_VERSION == 1

\* sizeof(nmgPolyMeshDetailHeader): nmeshes, nverts, ntris, maxmeshes,
\* maxverts, maxtris, version
PdHeaderSize == 7
\* sizeof(nmgPolyMeshHeader): nverts, npolys, maxpolys, nvp, bmin[3], bmax[3],
\* cs, ch, borderSize, maxverts, walkableHeight, walkableRadius, walkableStep,
\* version
PmHeaderSize == 18
\* cap: sizeof(int) + sizeof(float) * 2 + sizeof(long)
PmCap == 4

\* rcAlloc(size) returns a block: never for a negative size (a huge size_t),
\* and only while the allocator has memory (budget: allocations of this call
\* that still succeed)
RcAllocOk(h, size, budget) == size >= 0 /\ budget > 0 /\ CanAlloc(h)

\* consecutive rcAlloc calls for arrays of the given sizes, each assigned to
\* its field, up to and including the first that fails: the pointers assigned
\* (NullPtr last when one failed) and the heap.  The blocks are shown with the
\* content the copy that follows a full success gives them.
RECURSIVE AllocArrays(_, _, _, _)
AllocArrays(h, sizes, bytes, budget) ==
    IF sizes = <<>> THEN [heap |-> h, ptrs |-> <<>>]
    ELSE IF ~RcAllocOk(h, Head(sizes), budget)
    THEN [heap |-> h, ptrs |-> <<NullPtr>>]
    ELSE LET r == AllocArrays(AllocIn(h, Head(bytes)), Tail(sizes),
                              Tail(bytes), budget - 1)
         IN  [heap |-> r.heap, ptrs |-> <<Len(h) + 1>> \o r.ptrs]

AllocFailed(a) == a.ptrs # <<>> /\ a.ptrs[Len(a.ptrs)] = NullPtr

\* field k of the record after the allocations: assigned, or as it was
Assigned(a, k, old) == IF k <= Len(a.ptrs) THEN a.ptrs[k] ELSE old

NonNull(ps) == SelectSeq(ps, LAMBDA p : p # NullPtr)

\* what rcpdFreeMeshData hands to rcFree for record rec, in order
PdFreed(rec) ==
    IF rec.resourcetype = NMG_ALLOC_TYPE_LOCAL
    THEN NonNull(<<rec.meshes, rec.verts, rec.tris>>)
    ELSE <<>>

\* rcpdFreeMeshData(mesh); hasMesh: mesh is not null.  The record itself is
\* not written.
rcpdFreeMeshData(hasMesh) ==
    LET r0 == [NoRet EXCEPT !.op = "rcpdFreeMeshData", !.pre = pd,
                            !.arg = [hasMesh |-> hasMesh]]
    IN  IF hasMesh /\ pd.resourcetype = NMG_ALLOC_TYPE_LOCAL
        THEN /\ heap' = FreeAll(heap, PdFreed(pd))
             /\ ret' = [r0 EXCEPT !.ok = TRUE, !.status = "TRUE",
                                  !.freed = PdFreed(pd)]
             /\ UNCHANGED pd
        ELSE /\ ret' = [r0 EXCEPT !.status = "FALSE"]
             /\ UNCHANGED <<heap, pd>>

\* the byte sizes rcpdBuildFromMeshData computes from a header, in int
PdSizes(header) ==
    LET vertSize == ToInt(ToInt(header[5] * 3))
        meshSize == ToInt(ToInt(header[4] * 4))
        trisSize == ToInt(ToInt(header[6] * 4))
    IN  [vertSize |-> vertSize, meshSize |-> meshSize, trisSize |-> trisSize,
         totalDataSize |-> ToInt(PdHeaderSize + vertSize + meshSize + trisSize)]

\* rcpdBuildFromMeshData(meshData, dataSize, resultMesh) applied to buffer b
\* and record rec with the heap h: the heap, the record and the outcome it
\* leaves
rcpdBuildFromMeshData(b, rec0, h, hasData, hasMesh, budget, g) ==
    LET data == b.data
        r0 == [NoRet EXCEPT !.op = "rcpdBuildFromMeshData", !.pre = rec0,
                            !.arg = [hasData |-> hasData, hasMesh |-> hasMesh]]
        r1 == [r0 EXCEPT !.rdEnd = PdHeaderSize]
        header == CopyCells(data, 0, PdHeaderSize, g)
        sz == PdSizes(header)
        pos1 == PdHeaderSize
        pos2 == ToInt(pos1 + sz.meshSize)
        pos3 == ToInt(pos2 + sz.trisSize)
        a == AllocArrays(h, <<sz.meshSize, sz.trisSize, sz.vertSize>>,
                <<CopyCells(data, pos1, sz.meshSize, g),
                  CopyCells(data, pos2, sz.trisSize, g),
                  CopyCells(data, pos3, sz.vertSize, g)>>, budget)
        new == {p \in 1..Len(a.heap) : p > Len(h)}
        \* the record once the tag and the pointers have been assigned
        rec == [rec0 EXCEPT !.resourcetype = NMG_ALLOC_TYPE_LOCAL,
                            !.meshes = Assigned(a, 1, @),
                            !.tris = Assigned(a, 2, @),
                            !.verts = Assigned(a, 3, @)]
    IN  IF ~hasData \/ ~hasMesh \/ rec0.maxmeshes # 0 \/ b.size < PdHeaderSize
        THEN [heap |-> h, pd |-> rec0, ret |-> [r0 EXCEPT !.status = "REJECTED"]]
        ELSE IF ~VersionOk(header[7], NMG_POLYMESHDETAIL_VERSION)
        THEN [heap |-> h, pd |-> rec0, ret |-> [r1 EXCEPT !.status = "WRONG_VERSION"]]
        ELSE IF b.size < sz.totalDataSize
        THEN [heap |-> h, pd |-> rec0, ret |-> [r1 EXCEPT !.status = "TOO_SHORT"]]
        ELSE IF AllocFailed(a)
        THEN \* rcpdFreeMeshData(resultMesh), return false
             [heap |-> FreeAll(a.heap, PdFreed(rec)),
              pd |-> rec,
              ret |-> [r1 EXCEPT !.status = "OUT_OF_MEMORY", !.allocs = new,
                                 !.freed = PdFreed(rec)]]
        ELSE [heap |-> a.heap,
              pd |-> [rec EXCEPT !.nmeshes = header[1], !.nverts = header[2],
                                 !.ntris = header[3], !.maxmeshes = header[4],
                                 !.maxverts = header[5], !.maxtris = header[6]],
              ret |-> [r1 EXCEPT !.ok = TRUE, !.status = "TRUE", !.allocs = new,
                                 !.rdEnd = Max(Max(pos1 + sz.meshSize,
                                                   pos2 + sz.trisSize),
                                               Max(pos3 + sz.vertSize, PdHeaderSize))]]

\* the arrays of the detail mesh rcBuildPolyMeshDetail produces (collaborator):
\* one sub-mesh, one vertex, one triangle
BuiltMeshes == <<0, 1, 0, 1>>
BuiltVerts == <<1, 2, 3>>
BuiltTris == <<0, 0, 0, 0>>

\* rcpdBuildPolyMeshDetail(ctx, mesh, chf, sampleDist, sampleMaxError, dmesh);
\* hasArgs: no pointer argument is null; buildOk: rcBuildPolyMeshDetail
\* succeeds, storing three fresh arrays in dmesh
rcpdBuildPolyMeshDetail(hasArgs, buildOk) ==
    LET r0 == [NoRet EXCEPT !.op = "rcpdBuildPolyMeshDetail", !.pre = pd,
                            !.arg = [hasArgs |-> hasArgs]]
        n == Len(heap)
    IN  IF hasArgs /\ buildOk /\ n + 3 <= mem.blocks
        THEN /\ heap' = heap \o <<Block(BuiltMeshes), Block(BuiltVerts),
                                   Block(BuiltTris)>>
             /\ pd' = [meshes |-> n + 1, verts |-> n + 2, tris |-> n + 3,
                       nmeshes |-> 1, nverts |-> 1, ntris |-> 1,
                       maxmeshes |-> 1, maxverts |-> 1, maxtris |-> 1,
                       resourcetype |-> NMG_ALLOC_TYPE_LOCAL]
             /\ ret' = [r0 EXCEPT !.ok = TRUE, !.status = "TRUE",
                                  !.allocs = {n + 1, n + 2, n + 3}]
        ELSE /\ ret' = [r0 EXCEPT !.status = "FALSE"]
             /\ UNCHANGED <<heap, pd>>

\* what rcpmFreeMeshData hands to rcFree for record rec, in order
PmFreed(rec) == NonNull(<<rec.polys, rec.verts, rec.regs, rec.areas, rec.flags>>)

\* the record as rcpmFreeMeshData leaves it
PmCleared(rec) == [EmptyPm EXCEPT !.tail = rec.tail]

\* rcpmFreeMeshData(mesh); hasMesh: mesh is not null
rcpmFreeMeshData(hasMesh) ==
    LET r0 == [NoRet EXCEPT !.op = "rcpmFreeMeshData", !.pre = pm,
                            !.arg = [hasMesh |-> hasMesh]]
    IN  IF ~hasMesh
        THEN /\ ret' = [r0 EXCEPT !.status = "FALSE"]
             /\ UNCHANGED <<heap, pm>>
        ELSE /\ heap' = FreeAll(heap, PmFreed(pm))
             /\ pm' = PmCleared(pm)
             /\ ret' = [r0 EXCEPT !.ok = TRUE, !.status = "TRUE",
                                  !.freed = PmFreed(pm)]

\* the byte sizes rcpmBuildSerializedData computes from a header, in int
PmSizes(header) ==
    LET vertSize == ToInt(ToInt(header[14] * 3))
        polySize == ToInt(ToInt(ToInt(header[3] * 2) * header[4]))
        regionFlagSize == ToInt(header[3])
        areaSize == ToInt(header[3])
    IN  [vertSize |-> vertSize, polySize |-> polySize,
         regionFlagSize |-> regionFlagSize, areaSize |-> areaSize,
         totalDataSize |-> ToInt(PmHeaderSize + vertSize + polySize
                                  + ToInt(2 * regionFlagSize) + areaSize)]

\* rcpmBuildSerializedData(meshData, dataSize, resultMesh, maxVerts,
\* walkableHeight, walkableRadius, walkableStep) applied to buffer b and record
\* rec0 with the heap h; hasOut: none of the four output pointers is null
rcpmBuildSerializedData(b, rec0, h, hasData, hasMesh, hasOut, budget, g) ==
    LET data == b.data
        r0 == [NoRet EXCEPT !.op = "rcpmBuildSerializedData", !.pre = rec0,
                            !.arg = [hasData |-> hasData, hasMesh |-> hasMesh,
                                     hasOut |-> hasOut, out |-> <<>>]]
        r1 == [r0 EXCEPT !.rdEnd = PmHeaderSize]
        header == CopyCells(data, 0, PmHeaderSize, g)
        sz == PmSizes(header)
        pos1 == PmHeaderSize
        pos2 == ToInt(pos1 + sz.vertSize)
        pos3 == ToInt(pos2 + sz.polySize)
        pos4 == ToInt(pos3 + sz.regionFlagSize)
        pos5 == ToInt(pos4 + sz.regionFlagSize)
        a == AllocArrays(h,
                <<sz.vertSize, sz.polySize, sz.regionFlagSize,
                  sz.regionFlagSize, sz.areaSize>>,
                <<CopyCells(data, pos1, sz.vertSize, g),
                  CopyCells(data, pos2, sz.polySize, g),
                  CopyCells(data, pos3, sz.regionFlagSize, g),
                  CopyCells(data, pos4, sz.regionFlagSize, g),
                  CopyCells(data, pos5, sz.areaSize, g)>>, budget)
        new == {p \in 1..Len(a.heap) : p > Len(h)}
        rec == [rec0 EXCEPT !.verts = Assigned(a, 1, @),
                            !.polys = Assigned(a, 2, @),
                            !.regs = Assigned(a, 3, @),
                            !.flags = Assigned(a, 4, @),
                            !.areas = Assigned(a, 5, @)]
    IN  IF ~hasData \/ ~hasMesh \/ rec0.polys # NullPtr
           \/ b.size < PmHeaderSize \/ ~hasOut
        THEN [heap |-> h, pm |-> rec0, ret |-> [r0 EXCEPT !.status = "REJECTED"]]
        ELSE IF ~VersionOk(header[18], NMG_POLYMESH_VERSION)
        THEN [heap |-> h, pm |-> rec0, ret |-> [r1 EXCEPT !.status = "WRONG_VERSION"]]
        ELSE IF b.size < sz.totalDataSize
        THEN [heap |-> h, pm |-> rec0, ret |-> [r1 EXCEPT !.status = "TOO_SHORT"]]
        ELSE IF AllocFailed(a)
        THEN \* rcpmFreeMeshData(resultMesh), return false
             [heap |-> FreeAll(a.heap, PmFreed(rec)),
              pm |-> PmCleared(rec),
              ret |-> [r1 EXCEPT !.status = "OUT_OF_MEMORY", !.allocs = new,
                                 !.freed = PmFreed(rec)]]
        ELSE \* headerSize - cap cells go to the record, from nverts on
             [heap |-> a.heap,
              pm |-> [rec EXCEPT !.nverts = header[1], !.npolys = header[2],
                                 !.maxpolys = header[3], !.nvp = header[4],
                                 !.geom = SubSeq(header, 5, 12),
                                 !.borderSize = header[13],
                                 !.tail = header[PmHeaderSize - PmCap]],
              ret |-> [r1 EXCEPT
                    !.ok = TRUE, !.status = "TRUE", !.allocs = new,
                    !.arg.out = <<header[14], header[15], header[16], header[17]>>,
                    !.rdEnd = Max(Max(Max(pos1 + sz.vertSize, pos2 + sz.polySize),
                                      Max(pos3 + sz.regionFlagSize,
                                          pos4 + sz.regionFlagSize)),
                                  Max(pos5 + sz.areaSize, PmHeaderSize))]]


--------------------------------------------------------------------------
(* Mesh record serializers: PolyMeshDetailEx.cpp, PolyMeshEx.cpp           *)
(* The record serialized is pd / pm with its arrays in the heap; the       *)
(* buffer returned through resultData / dataSize is buf.                   *)

\* RC_MESH_NULL_IDX (Recast.h): the index that ends a polygon's vertex list
RC_MESH_NULL_IDX == 2^16 - 1

\* the inner loop of getMaxVerts over polygon cells p + j .. p + nvp - 1
RECURSIVE MaxIndexOfPoly(_, _, _, _, _)
MaxIndexOfPoly(polys, p, j, nvp, maxIndex) ==
    IF j >= nvp THEN maxIndex
    ELSE LET index == polys[p + j + 1]
         IN  IF index = RC_MESH_NULL_IDX THEN maxIndex
             ELSE MaxIndexOfPoly(polys, p, j + 1, nvp, Max(index, maxIndex))

\* the outer loop of getMaxVerts over polygons i .. npolys - 1
RECURSIVE MaxIndexFrom(_, _, _, _, _)
MaxIndexFrom(polys, i, npolys, nvp, maxIndex) ==
    IF i >= npolys THEN maxIndex
    ELSE MaxIndexFrom(polys, i + 1, npolys, nvp,
                      MaxIndexOfPoly(polys, i * 2 * nvp, 0, nvp, maxIndex))

\* getMaxVerts(mesh)
getMaxVerts(rec, h) ==
    MaxIndexFrom(IF rec.polys = NullPtr THEN <<>> ELSE h[rec.polys].bytes,
                 0, rec.npolys, rec.nvp, 0) + 1

\* a count that is the capacity whatever includeBuffer says; C21 fails with it
AlwaysCapacity(includeBuffer, max, n) == max

\* "includeBuffer ? mesh->max... : mesh->n...": the elements written
WrittenCount(includeBuffer, max, n) == IF includeBuffer THEN max ELSE n

\* the detail arrays with the vertices first; C24 fails with it
PdArraysVertsFirst(meshCells, triCells, vertCells) ==
    vertCells \o meshCells \o triCells

\* the array data of a detail buffer, in the order of the three copies
PdArrays(meshCells, triCells, vertCells) ==
    meshCells \o triCells \o vertCells

\* rcpdGetSerializedData(mesh, includeBuffer, resultData, dataSize); hasArgs:
\* none of the three pointers is null; allocOk: rcAlloc succeeds
rcpdGetSerializedData(hasArgs, includeBuffer, allocOk, g) ==
    LET r0 == [NoRet EXCEPT !.op = "rcpdGetSerializedData", !.pre = pd,
                            !.arg = [hasArgs |-> hasArgs,
                                     includeBuffer |-> includeBuffer,
                                     allocOk |-> allocOk]]
        copied == <<pd.nmeshes, pd.nverts, pd.ntris,
                    pd.maxmeshes, pd.maxverts, pd.maxtris,
                    NMG_POLYMESHDETAIL_VERSION>>
        meshCount == WrittenCount(includeBuffer, pd.maxmeshes, pd.nmeshes)
        vertCount == WrittenCount(includeBuffer, pd.maxverts, pd.nverts)
        triCount == WrittenCount(includeBuffer, pd.maxtris, pd.ntris)
        header == [copied EXCEPT ![4] = meshCount, ![5] = vertCount,
                                 ![6] = triCount]
        vertSize == ToInt(ToInt(vertCount * 3))
        meshSize == ToInt(ToInt(meshCount * 4))
        trisSize == ToInt(ToInt(triCount * 4))
        totalDataSize == ToInt(PdHeaderSize + vertSize + meshSize + trisSize)
    IN  IF ~hasArgs \/ pd.maxmeshes = 0
        THEN /\ ret' = [r0 EXCEPT !.status = "REJECTED"]
             /\ UNCHANGED buf
        ELSE IF ~(allocOk /\ totalDataSize >= 0)
        THEN /\ ret' = [r0 EXCEPT !.status = "OUT_OF_MEMORY"]
             /\ UNCHANGED buf
        ELSE /\ buf' = [buf EXCEPT
                    !.data = header
                             \o PdArrays(CopyCells(heap[pd.meshes].bytes, 0, meshSize, g),
                                         CopyCells(heap[pd.tris].bytes, 0, trisSize, g),
                                         CopyCells(heap[pd.verts].bytes, 0, vertSize, g)),
                    !.size = totalDataSize]
             /\ ret' = [r0 EXCEPT !.ok = TRUE, !.status = "TRUE"]

\* rcpmGetSerializedData(mesh, maxVerts, walkableHeight, walkableRadius,
\* walkableStep, includeBuffer, resultData, dataSize); walkable: the three
\* walkable values
rcpmGetSerializedData(hasArgs, maxVerts, walkable, includeBuffer, allocOk, g) ==
    LET r0 == [NoRet EXCEPT !.op = "rcpmGetSerializedData", !.pre = pm,
                            !.arg = [hasArgs |-> hasArgs,
                                     includeBuffer |-> includeBuffer,
                                     allocOk |-> allocOk,
                                     maxVerts |-> maxVerts,
                                     walkable |-> walkable]]
        \* headerSize - cap cells from &mesh->nverts on
        copied == <<pm.nverts, pm.npolys, pm.maxpolys, pm.nvp>> \o pm.geom
                  \o <<pm.borderSize, pm.tail>>
        polyCount == WrittenCount(includeBuffer, pm.maxpolys, pm.npolys)
        vertCount == WrittenCount(includeBuffer, maxVerts, pm.nverts)
        header == [copied EXCEPT ![3] = polyCount,
                                 ![PmHeaderSize - PmCap] = vertCount]
                  \o <<walkable[1], walkable[2], walkable[3],
                       NMG_POLYMESH_VERSION>>
        vertSize == ToInt(ToInt(vertCount * 3))
        polySize == ToInt(ToInt(ToInt(polyCount * 2) * pm.nvp))
        regionFlagSize == ToInt(polyCount)
        areaSize == ToInt(polyCount)
        totalDataSize == ToInt(PmHeaderSize + vertSize + polySize
                               + ToInt(2 * regionFlagSize) + areaSize)
    IN  IF ~hasArgs \/ pm.maxpolys = 0
        THEN /\ ret' = [r0 EXCEPT !.status = "REJECTED"]
             /\ UNCHANGED buf
        ELSE IF ~(allocOk /\ totalDataSize >= 0)
        THEN /\ ret' = [r0 EXCEPT !.status = "OUT_OF_MEMORY"]
             /\ UNCHANGED buf
        ELSE /\ buf' = [buf EXCEPT
                    !.data = header
                             \o CopyCells(heap[pm.verts].bytes, 0, vertSize, g)
                             \o CopyCells(heap[pm.polys].bytes, 0, polySize, g)
                             \o CopyCells(heap[pm.regs].bytes, 0, regionFlagSize, g)
                             \o CopyCells(heap[pm.flags].bytes, 0, regionFlagSize, g)
                             \o CopyCells(heap[pm.areas].bytes, 0, areaSize, g),
                    !.size = totalDataSize]
             /\ ret' = [r0 EXCEPT !.ok = TRUE, !.status = "TRUE"]

--------------------------------------------------------------------------
(* SpecMesh: mesh records built from buffers and released                  *)

\* capacities whose size computation wraps: 3 * WrapOne is 2 in int, and
\* header + 3 * WrapAll (+ one sub-mesh) no longer fits an int
WrapOne == (IntMod + 2) \div 3
PdWrapAll == (IntMod \div 2 - PdHeaderSize - 4) \div 3 + 1
PmWrapAll == (IntMod \div 2 - PmHeaderSize) \div 3 + 1

\* (maxmeshes, maxverts, maxtris) of the input detail-mesh headers
PdShapes ==
    { <<1, 1, 1>>, <<0, 0, 0>>, <<1, WrapOne, 0>>, <<1, PdWrapAll, 0>>,
      <<1, -1, 1>>, <<-1, 1, 1>> }

\* (maxverts, maxpolys, nvp) of the input polygon-mesh headers
PmShapes ==
    { <<1, 1, 1>>, <<0, 0, 0>>, <<WrapOne, 0, 0>>, <<PmWrapAll, 0, 0>>,
      <<-1, 1, 1>>, <<1, -1, -1>> }

Versions == {NMG_POLYMESH_VERSION, NMG_POLYMESH_VERSION + 1}

\* a populated count for a capacity
CountFor(max) == IF max = 1 THEN 1 ELSE 0

PdHeader(sh, version) ==
    <<CountFor(sh[1]), CountFor(sh[2]), CountFor(sh[3]),
      sh[1], sh[2], sh[3], version>>

PmHeader(sh, version) ==
    <<CountFor(sh[1]), CountFor(sh[2]), sh[2], sh[3],
      0, 0, 0, 1, 1, 1, 1, 1, 0, sh[1], 2, 1, 1, version>>

Filler == [k \in 1..MaxBody |-> k]

\* lengths of array data tried after a header: what the reader's own size
\* computation asks for, and up to MaxCut cells less
BodyLens(headerSize, totalDataSize) ==
    { n \in 0..MaxBody : \E c \in 0..MaxCut :
        n = Max(0, totalDataSize - headerSize - c) }

\* serialized mesh records: a header followed by array data
PdBuffers ==
    UNION { { PdHeader(sh, v) \o SubSeq(Filler, 1, n) :
                n \in BodyLens(PdHeaderSize, PdSizes(PdHeader(sh, v)).totalDataSize) } :
            sh \in PdShapes, v \in Versions }

PmBuffers ==
    UNION { { PmHeader(sh, v) \o SubSeq(Filler, 1, n) :
                n \in BodyLens(PmHeaderSize, PmSizes(PmHeader(sh, v)).totalDataSize) } :
            sh \in PmShapes, v \in Versions }

Tags == {NMG_ALLOC_TYPE_EXTERN, NMG_ALLOC_TYPE_LOCAL, NMG_ALLOC_TYPE_MANAGED_LOCAL}

\* a detail mesh whose arrays the caller allocated
ExternPd(tag) ==
    [meshes |-> 1, verts |-> 2, tris |-> 3, nmeshes |-> 1, nverts |-> 1,
     ntris |-> 1, maxmeshes |-> 1, maxverts |-> 1, maxtris |-> 1,
     resourcetype |-> tag]

\* The caller works on one record: a detail mesh (empty with any tag, or
\* holding arrays the caller allocated) and a buffer to build it from, or an
\* empty polygon mesh and a buffer to build it from.
InitMesh ==
    /\ mem = [blocks |-> MeshBlocks, meshes |-> MaxMeshes]
    /\ \/ /\ \E d \in PdBuffers :
                buf = [data |-> d, size |-> Len(d), kind |-> "detail"]
          /\ \/ /\ heap = <<>>
                /\ \E tag \in Tags : pd = [EmptyPd EXCEPT !.resourcetype = tag]
             \/ /\ heap = <<Block(BuiltMeshes), Block(BuiltVerts),
                             Block(BuiltTris)>>
                /\ \E tag \in Tags \ {NMG_ALLOC_TYPE_LOCAL} : pd = ExternPd(tag)
       \/ /\ \E d \in PmBuffers :
                buf = [data |-> d, size |-> Len(d), kind |-> "poly"]
          /\ heap = <<>>
          /\ pd = EmptyPd
    /\ tileData = EmptyTileData
    /\ meshes = <<>>
    /\ ppNavMesh = 0
    /\ packed = NotPacked
    /\ pm = EmptyPm
    /\ ret = NoRet
    /\ context = NoContext
    /\ flat = NoFlat

\* what goes wrong in the environment of one call, at most one thing
MeshFaults == {"none", "data", "mesh", "out", "alloc"}

AllocBudgets(f, n) == IF f = "alloc" THEN 0..(n - 1) ELSE {n}

RcpdBuildFromMeshData ==
    /\ Running
    /\ buf.kind = "detail"
    /\ \E f \in MeshFaults \ {"out"}, g \in Garbage :
          \E budget \in AllocBudgets(f, 3) :
             LET r == rcpdBuildFromMeshData(buf, pd, heap, f # "data", f # "mesh",
                                            budget, g)
             IN  heap' = r.heap /\ pd' = r.pd /\ ret' = r.ret
    /\ UNCHANGED <<mem, tileData, meshes, ppNavMesh, buf, packed, pm, context, flat>>

RcpdBuildPolyMeshDetail ==
    /\ Running
    /\ buf.kind = "detail"
    /\ \E hasArgs \in BOOLEAN, buildOk \in BOOLEAN :
          rcpdBuildPolyMeshDetail(hasArgs, buildOk)
    /\ UNCHANGED <<mem, tileData, meshes, ppNavMesh, buf, packed, pm, context, flat>>

RcpdFreeMeshData ==
    /\ Running
    /\ buf.kind = "detail"
    /\ \E hasMesh \in BOOLEAN : rcpdFreeMeshData(hasMesh)
    /\ UNCHANGED <<mem, tileData, meshes, ppNavMesh, buf, packed, pm, context, flat>>

RcpmBuildSerializedData ==
    /\ Running
    /\ buf.kind = "poly"
    /\ \E f \in MeshFaults, g \in Garbage :
          \E budget \in AllocBudgets(f, 5) :
             LET r == rcpmBuildSerializedData(buf, pm, heap, f # "data", f # "mesh",
                                              f # "out", budget, g)
             IN  heap' = r.heap /\ pm' = r.pm /\ ret' = r.ret
    /\ UNCHANGED <<mem, tileData, meshes, ppNavMesh, buf, packed, pd, context, flat>>

RcpmFreeMeshData ==
    /\ Running
    /\ buf.kind = "poly"
    /\ \E hasMesh \in BOOLEAN : rcpmFreeMeshData(hasMesh)
    /\ UNCHANGED <<mem, tileData, meshes, ppNavMesh, buf, packed, pd, context, flat>>

NextMesh ==
    \/ RcpdBuildFromMeshData
    \/ RcpdBuildPolyMeshDetail
    \/ RcpdFreeMeshData
    \/ RcpmBuildSerializedData
    \/ RcpmFreeMeshData

SpecMesh == InitMesh /\ [][NextMesh]_vars


--------------------------------------------------------------------------
(* SpecReaders: the three readers, each on buffers of its own format       *)

InitReaders ==
    /\ mem = [blocks |-> MeshBlocks, meshes |-> MaxMeshes]
    /\ heap = <<>>
    /\ \/ /\ \E d \in PdBuffers :
                buf = [data |-> d, size |-> Len(d), kind |-> "detail"]
          /\ \E tag \in Tags : pd = [EmptyPd EXCEPT !.resourcetype = tag]
       \/ /\ \E d \in PmBuffers :
                buf = [data |-> d, size |-> Len(d), kind |-> "poly"]
          /\ pd = EmptyPd
       \/ /\ \E d \in InputArchives :
                buf = [data |-> d, size |-> Len(d), kind |-> "archive"]
          /\ pd = EmptyPd
    /\ tileData = EmptyTileData
    /\ meshes = <<>>
    /\ ppNavMesh = 0
    /\ packed = NotPacked
    /\ pm = EmptyPm
    /\ ret = NoRet
    /\ context = NoContext
    /\ flat = NoFlat

ReadArchive ==
    /\ buf.kind = "archive"
    /\ BuildDTNavMeshFromRaw

NextReaders ==
    \/ ReadArchive
    \/ RcpdBuildFromMeshData
    \/ RcpmBuildSerializedData

SpecReaders == InitReaders /\ [][NextReaders]_vars

--------------------------------------------------------------------------
(* SpecSerialize: mesh records serialized into buffers                     *)

\* (populated, capacity) of an array of a record
CountPairs ==
    {c \in (0..MaxCapacity) \X (0..MaxCapacity) : c[1] <= c[2]}

\* array content: n cells, base + 1 .. base + n
Ramp(base, n) == [k \in 1..n |-> base + k]

\* the polygon array of a mesh: 2 * nvp cells per polygon, the first nvp its
\* vertex indices; cells that hold no index hold RC_MESH_NULL_IDX
PolyCells(nverts, npolys, maxpolys, nvp) ==
    [k \in 1..(maxpolys * 2 * nvp) |->
        LET i == (k - 1) \div (2 * nvp)
            j == (k - 1) % (2 * nvp)
        IN  IF i < npolys /\ j < nvp /\ nverts > 0
            THEN (i + j) % nverts
            ELSE RC_MESH_NULL_IDX]

\* detail-mesh records: m, v are the count pairs of sub-meshes (and
\* triangles) and of vertices
SourcePd(m, v, tag) ==
    [meshes |-> 1, verts |-> 2, tris |-> 3,
     nmeshes |-> m[1], nverts |-> v[1], ntris |-> m[1],
     maxmeshes |-> m[2], maxverts |-> v[2], maxtris |-> m[2],
     resourcetype |-> tag]

SourcePdHeap(m, v) ==
    <<Block(Ramp(10, 4 * m[2])), Block(Ramp(30, 3 * v[2])),
      Block(Ramp(50, 4 * m[2]))>>

\* polygon-mesh records: q, v are the count pairs of polygons and of vertices
SourcePm(q, v, nvp) ==
    [verts |-> 1, polys |-> 2, regs |-> 3, flags |-> 4, areas |-> 5,
     nverts |-> v[1], npolys |-> q[1], maxpolys |-> q[2], nvp |-> nvp,
     geom |-> <<1, 2, 3, 4, 5, 6, 7, 8>>, borderSize |-> 9, tail |-> 11]

SourcePmHeap(q, v, nvp) ==
    <<Block(Ramp(30, 3 * v[2])), Block(PolyCells(v[1], q[1], q[2], nvp)),
      Block(Ramp(70, q[2])), Block(Ramp(80, q[2])), Block(Ramp(90, q[2]))>>

\* The caller holds one record with its arrays, a detail mesh or a polygon
\* mesh, populated within its capacity, and no buffer yet.
InitSerialize ==
    /\ mem = [blocks |-> MeshBlocks, meshes |-> MaxMeshes]
    /\ \/ /\ \E m \in CountPairs, v \in CountPairs, tag \in Tags :
                /\ pd = SourcePd(m, v, tag)
                /\ heap = SourcePdHeap(m, v)
          /\ pm = EmptyPm
          /\ buf = [data |-> <<>>, size |-> 0, kind |-> "detail"]
       \/ /\ \E q \in CountPairs, v \in CountPairs, nvp \in 1..2 :
                /\ pm = SourcePm(q, v, nvp)
                /\ heap = SourcePmHeap(q, v, nvp)
          /\ pd = EmptyPd
          /\ buf = [data |-> <<>>, size |-> 0, kind |-> "poly"]
    /\ tileData = EmptyTileData
    /\ meshes = <<>>
    /\ ppNavMesh = 0
    /\ packed = NotPacked
    /\ ret = NoRet
    /\ context = NoContext
    /\ flat = NoFlat

\* what goes wrong in the environment of one serializer call, at most one thing
SerializeFaults == {"none", "mesh", "out", "alloc"}

\* vertices the vertex array of the polygon mesh has room for
VertCapacity == IF pm.verts = NullPtr THEN 0 ELSE Len(heap[pm.verts].bytes) \div 3

\* the walkable height, radius and step the caller passes
WalkableValues == {<<21, 22, 23>>}

RcpdGetSerializedData ==
    /\ Running
    /\ buf.kind = "detail"
    /\ \E f \in SerializeFaults, includeBuffer \in BOOLEAN, g \in Garbage :
          rcpdGetSerializedData(f \notin {"mesh", "out"}, includeBuffer,
                                f # "alloc", g)
    /\ UNCHANGED <<mem, heap, tileData, meshes, ppNavMesh, packed, pd, pm, context, flat>>

\* maxVerts: any count the vertex array has room for, or what getMaxVerts
\* reported when the mesh was built
RcpmGetSerializedData ==
    /\ Running
    /\ buf.kind = "poly"
    /\ \E f \in SerializeFaults, includeBuffer \in BOOLEAN, g \in Garbage,
          walkable \in WalkableValues,
          maxVerts \in (0..VertCapacity) \cup {getMaxVerts(pm, heap)} :
          rcpmGetSerializedData(f \notin {"mesh", "out"}, maxVerts, walkable,
                                includeBuffer, f # "alloc", g)
    /\ UNCHANGED <<mem, heap, tileData, meshes, ppNavMesh, packed, pd, pm, context, flat>>

NextSerialize ==
    \/ RcpdGetSerializedData
    \/ RcpmGetSerializedData

SpecSerialize == InitSerialize /\ [][NextSerialize]_vars

--------------------------------------------------------------------------
(* Properties of the tile-set archive (SpecArchive)                        *)

\* dtnmBuildDTNavMeshFromRaw applied to buffer b by a caller with a null
\* handle and an empty heap, nothing failing in its environment
Unpacked(b, safeStorage, g) ==
    BuildFromRaw(b, 0, <<>>, <<>>, TRUE, safeStorage, TRUE, TRUE, MaxRecords + 1, g)

\* the container u holds is the one `packed` describes: same parameters, as
\* many tiles, and every tile with its reference and payload
SameAsPacked(u) ==
    /\ u.ret.ok
    /\ LET m == u.meshes[u.pp]
       IN  /\ m.orig = packed.orig
           /\ m.maxTiles = packed.maxTiles
           /\ Cardinality(LiveSlots(m)) =
                Cardinality({s \in 1..packed.maxTiles : packed.tiles[s].live})
           /\ \A s \in 1..packed.maxTiles :
                packed.tiles[s].live =>
                    \E t \in LiveSlots(m) :
                        /\ dtGetTileRef(m, t) = packed.tiles[s].ref
                        /\ u.heap[m.tiles[t].data].bytes = packed.tiles[s].bytes

\* C1: archive round trip.  Whenever dtnmGetNavMeshRawData has packed a
\* container (its own allocation succeeding), it returned a buffer, and
\* dtnmBuildDTNavMeshFromRaw applied to that buffer succeeds and yields a
\* container with the same parameters and exactly the same tiles (reference
\* and payload bytes), whichever slots the tiles occupied.
C1_ArchiveRoundTrip ==
    (ret.op = "dtnmGetNavMeshRawData" /\ ppNavMesh # 0 /\ ret.arg.allocOk) =>
        /\ ret.status = "DONE"
        /\ \A safeStorage \in BOOLEAN, g \in Garbage :
              SameAsPacked(Unpacked(buf, safeStorage, g))

\* offset of the k-th tile record (k >= 1) of an archive, following the sizes
\* the earlier records declare
RECURSIVE RecordOffset(_, _)
RecordOffset(data, k) ==
    IF k = 1 THEN SetHeaderSize
    ELSE LET o == RecordOffset(data, k - 1)
         IN  o + TileHeaderSize + Cell(data, o + 1, 0)

\* the header of record k lies inside the buffer and has a zero reference or
\* a zero size
CorruptRecord(data, k) ==
    LET o == RecordOffset(data, k)
    IN  /\ o + TileHeaderSize <= Len(data)
        /\ (Cell(data, o, 0) = 0 \/ Cell(data, o + 1, 0) = 0)

\* record k lies inside the buffer, payload included
WholeRecord(data, k) ==
    LET o == RecordOffset(data, k)
    IN  /\ o + TileHeaderSize <= Len(data)
        /\ o + TileHeaderSize + Cell(data, o + 1, 0) <= Len(data)

\* C2: unpack atomicity.  When dtnmBuildDTNavMeshFromRaw is given an archive
\* in which some record k <= tileCount has a zero reference or a zero size, it
\* returns failure and the handle is null afterwards; whenever it returns
\* success, the handle names a live container that holds exactly tileCount
\* tiles, among them every record of the buffer with its reference and bytes.
C2_UnpackAtomicity ==
    (ret.op = "dtnmBuildDTNavMeshFromRaw") =>
        /\ (/\ ret.arg.hasData
            /\ Len(buf.data) >= SetHeaderSize
            /\ \E k \in 1..Cell(buf.data, 1, 0) : CorruptRecord(buf.data, k))
           => (~ret.ok /\ ppNavMesh = 0)
        /\ ~ret.ok => (ret.status = "INVALID_PARAM" \/ ppNavMesh = 0)
        /\ ret.ok =>
            /\ ppNavMesh # 0
            /\ ppNavMesh = ret.mesh
            /\ LET m == meshes[ppNavMesh]
                   tileCount == Cell(buf.data, 1, 0)
               IN  /\ m.live
                   /\ Cardinality(LiveSlots(m)) = tileCount
                   /\ \A k \in 1..tileCount :
                        WholeRecord(buf.data, k) =>
                          LET o == RecordOffset(buf.data, k)
                          IN  \E t \in LiveSlots(m) :
                                /\ dtGetTileRef(m, t) = Cell(buf.data, o, 0)
                                /\ heap[m.tiles[t].data].bytes =
                                     CopyCells(buf.data, o + TileHeaderSize,
                                               Cell(buf.data, o + 1, 0), 0)

\* the call failed on a corrupt record after it had loaded a tile
C2_CorruptAfterLoadedTile ==
    /\ ret.op = "dtnmBuildDTNavMeshFromRaw"
    /\ ret.arg.hasData
    /\ CorruptRecord(buf.data, 2)
    /\ Cell(buf.data, 1, 0) = 2
    /\ ret.status = "INVALID_PARAM"
    /\ Cardinality(ret.allocs) = 1
    /\ ppNavMesh = 0

\* C6: truncation safety of tile buffers.  dtnmBuildDTNavMeshFromRaw and
\* dtnmGetTileDataHeader never read at an offset >= dataSize, and succeed only
\* on a buffer that holds everything they read.
C6_TileBufferTruncationSafety ==
    (ret.op \in {"dtnmBuildDTNavMeshFromRaw", "dtnmGetTileDataHeader"}) =>
        ret.rdEnd <= buf.size

\* C8: unpack failure cleanup.  When dtnmBuildDTNavMeshFromRaw fails after it
\* allocated the container, the container is destroyed and no block the call
\* allocated is still live.
C8_UnpackFailureCleanup ==
    (ret.op = "dtnmBuildDTNavMeshFromRaw" /\ ~ret.ok /\ ret.mesh # 0) =>
        /\ ~meshes[ret.mesh].live
        /\ \A p \in ret.allocs : ~heap[p].live


\* C20: for every dataSize smaller than the archive top header, zero and
\* negative values of the signed argument included, dtnmBuildDTNavMeshFromRaw
\* fails with the invalid-parameter code, reads nothing from the buffer and
\* allocates no container.
C20_UnpackSizeGuard ==
    ret.op = "dtnmBuildDTNavMeshFromRaw" /\ buf.size < SetHeaderSize =>
        /\ ~ret.ok
        /\ ret.status = "INVALID_PARAM"
        /\ ret.rdEnd = 0
        /\ ret.mesh = 0
        /\ meshes = <<>>

--------------------------------------------------------------------------
(* Properties of the readers (SpecReaders) and mesh records (SpecMesh)     *)

\* the buffer has a whole header of headerSize cells whose version cell (the
\* last of the header, the first for an archive) is not the expected one
ForeignVersion(b, headerSize, versionAt, expected) ==
    /\ b.size >= headerSize
    /\ b.data[versionAt] # expected

\* C4: version guard.  A call of dtnmBuildDTNavMeshFromRaw,
\* rcpdBuildFromMeshData or rcpmBuildSerializedData on a buffer whose header
\* carries another version than the reader's constant returns failure and
\* leaves the heap as it was (nothing allocated, nothing released); the
\* archive reader allocates no container and leaves a null handle, the mesh
\* readers leave the target record, ownership tag included, as it was.
C4_VersionGuard ==
    [][ /\ (/\ ret'.op = "dtnmBuildDTNavMeshFromRaw"
            /\ ret'.arg.hasData
            /\ ForeignVersion(buf, SetHeaderSize, 1, RCN_NAVMESH_VERSION))
           => (/\ ~ret'.ok
               /\ heap' = heap
               /\ meshes' = meshes
               /\ ppNavMesh' = 0)
        /\ (/\ ret'.op = "rcpdBuildFromMeshData"
            /\ ret'.arg.hasData /\ ret'.arg.hasMesh
            /\ ForeignVersion(buf, PdHeaderSize, PdHeaderSize,
                              NMG_POLYMESHDETAIL_VERSION))
           => (/\ ~ret'.ok
               /\ heap' = heap
               /\ pd' = pd)
        /\ (/\ ret'.op = "rcpmBuildSerializedData"
            /\ ret'.arg.hasData /\ ret'.arg.hasMesh /\ ret'.arg.hasOut
            /\ ForeignVersion(buf, PmHeaderSize, PmHeaderSize,
                              NMG_POLYMESH_VERSION))
           => (/\ ~ret'.ok
               /\ heap' = heap
               /\ pm' = pm) ]_vars

\* rcpdBuildFromMeshData got as far as the version test on a record tagged
\* EXTERN and refused the buffer there
C4_ForeignVersionRefused ==
    /\ ret.op = "rcpdBuildFromMeshData"
    /\ ret.status = "WRONG_VERSION"
    /\ ret.pre.resourcetype = NMG_ALLOC_TYPE_EXTERN
    /\ ForeignVersion(buf, PdHeaderSize, PdHeaderSize, NMG_POLYMESHDETAIL_VERSION)

MeshReaders == {"rcpdBuildFromMeshData", "rcpmBuildSerializedData"}

\* header size plus the array sizes the capacity fields of the buffer's header
\* imply, without wrapping
PdImplied(data) ==
    PdHeaderSize + 3 * Cell(data, 4, 0) + 4 * Cell(data, 3, 0) + 4 * Cell(data, 5, 0)

PmImplied(data) ==
    PmHeaderSize + 3 * Cell(data, 13, 0) + 2 * Cell(data, 2, 0) * Cell(data, 3, 0)
        + 2 * Cell(data, 2, 0) + Cell(data, 2, 0)

\* C5: truncation safety of mesh-record deserialization.
\* rcpdBuildFromMeshData and rcpmBuildSerializedData read no offset at or
\* beyond dataSize, and accept no buffer shorter than the header plus the
\* array sizes implied by the header's capacity fields.
C5_MeshTruncationSafety ==
    (ret.op \in MeshReaders) =>
        /\ ret.rdEnd <= buf.size
        /\ (ret.op = "rcpdBuildFromMeshData" /\ ret.ok) =>
                buf.size >= PdImplied(buf.data)
        /\ (ret.op = "rcpmBuildSerializedData" /\ ret.ok) =>
                buf.size >= PmImplied(buf.data)

IsEmptyPd(rec) == rec = [EmptyPd EXCEPT !.resourcetype = rec.resourcetype]

\* C7: deserialize rollback.  When an array allocation fails inside
\* rcpdBuildFromMeshData or rcpmBuildSerializedData called on an empty record,
\* every array the call allocated has been released exactly once and the record
\* is as before the call: pointers null, counts and capacities zero, tag
\* unchanged.
C7_DeserializeRollback ==
    /\ (ret.op = "rcpdBuildFromMeshData" /\ ret.status = "OUT_OF_MEMORY"
            /\ IsEmptyPd(ret.pre)) =>
        /\ \A p \in ret.allocs : heap[p].frees = 1
        /\ pd = ret.pre
    /\ (ret.op = "rcpmBuildSerializedData" /\ ret.status = "OUT_OF_MEMORY"
            /\ ret.pre = EmptyPm) =>
        /\ \A p \in ret.allocs : heap[p].frees = 1
        /\ pm = ret.pre

DetailOps == {"rcpdBuildFromMeshData", "rcpdBuildPolyMeshDetail", "rcpdFreeMeshData"}

\* C10: detail-mesh release discipline.  rcpdFreeMeshData returns false and
\* releases nothing for a null record or a tag other than LOCAL, returns true
\* for a LOCAL record, and over any sequence of rcpdBuildFromMeshData /
\* rcpdBuildPolyMeshDetail / rcpdFreeMeshData on one record no array is released
\* more than once.
C10_DetailReleaseDiscipline ==
    /\ (ret.op = "rcpdFreeMeshData"
            /\ (~ret.arg.hasMesh \/ ret.pre.resourcetype # NMG_ALLOC_TYPE_LOCAL)) =>
        /\ ~ret.ok
        /\ ret.freed = <<>>
    /\ (ret.op = "rcpdFreeMeshData" /\ ret.arg.hasMesh
            /\ ret.pre.resourcetype = NMG_ALLOC_TYPE_LOCAL) => ret.ok
    /\ (ret.op \in DetailOps) => ReleasedAtMostOnce

--------------------------------------------------------------------------
(* Vertex de-duplication (PolyMeshDetailEx.cpp, NMGen.h)                   *)
(* A vertex is <<x, y, z>>.  Coordinates are integers that count           *)
(* multiples of NMG_TOLERANCE, so float rounding is outside the model.     *)

MaxVerts == 4        \* longest vertex array handed to removeDuplicateVerts

\* NMG_TOLERANCE, in the unit the coordinates are counted in
NMG_TOLERANCE == 1

\* a comparison that only accepts identical coordinates; C11 fails with it
ExactEquals(a, b) == a = b

\* nmgSloppyEquals<T>(a, b)
nmgSloppyEquals(a, b) == ~(b < a - NMG_TOLERANCE \/ b > a + NMG_TOLERANCE)

\* a vertex test that forgets the z axis; C12 fails with it
SameXY(s, r) == nmgSloppyEquals(s[1], r[1]) /\ nmgSloppyEquals(s[2], r[2])

\* the three-axis test of the inner loop: s a source vertex, r an emitted one
SameVertex(s, r) ==
    /\ nmgSloppyEquals(s[1], r[1])
    /\ nmgSloppyEquals(s[2], r[2])
    /\ nmgSloppyEquals(s[3], r[3])

\* a search that keeps the last emitted vertex that matches; C27 fails with it
RECURSIVE FindLast(_, _, _)
FindLast(v, resultVerts, j) ==
    IF j >= Len(resultVerts) THEN Len(resultVerts)
    ELSE LET later == FindLast(v, resultVerts, j + 1)
         IN  IF later < Len(resultVerts) THEN later
             ELSE IF SameVertex(v, resultVerts[j + 1]) THEN j
             ELSE Len(resultVerts)

\* the inner loop "for (j = 0; j < resultCount; j++)": the index of the first
\* emitted vertex that matches v, or resultCount when none does
RECURSIVE FindIndex(_, _, _)
FindIndex(v, resultVerts, j) ==
    IF j >= Len(resultVerts) THEN Len(resultVerts)
    ELSE IF SameVertex(v, resultVerts[j + 1]) THEN j
    ELSE FindIndex(v, resultVerts, j + 1)

\* an emit step that also overwrites a matched vertex; C13 fails with it
StoreLatest(resultVerts, index, v) ==
    IF index = Len(resultVerts) THEN Append(resultVerts, v)
    ELSE [resultVerts EXCEPT ![index + 1] = v]

\* "if (index == resultCount)": a new vertex is appended, a seen one is not
StoreVertex(resultVerts, index, v) ==
    IF index = Len(resultVerts) THEN Append(resultVerts, v) ELSE resultVerts

\* the outer loop from source index i on (indices are 0-based as in the code)
RECURSIVE DedupFrom(_, _, _, _)
DedupFrom(sourceVerts, i, resultVerts, indicesMap) ==
    IF i >= Len(sourceVerts)
    THEN [resultCount |-> Len(resultVerts), resultVerts |-> resultVerts,
          indicesMap |-> indicesMap]
    ELSE LET v == sourceVerts[i + 1]
             index == FindIndex(v, resultVerts, 0)
         IN  DedupFrom(sourceVerts, i + 1, StoreVertex(resultVerts, index, v),
                       Append(indicesMap, index))

\* removeDuplicateVerts(vertCount, sourceVerts, resultVerts, indicesMap):
\* resultVerts holds the resultCount vertices written, indicesMap one entry
\* per source vertex
removeDuplicateVerts(vertCount, sourceVerts) ==
    DedupFrom(SubSeq(sourceVerts, 1, vertCount), 0, <<>>, <<>>)

--------------------------------------------------------------------------
(* SpecDedup: removeDuplicateVerts on a vertex array, then on its output   *)

\* vertices one tolerance apart in a row along x (the first and the third are
\* two tolerances apart), and one that differs from the first in z only
VertexPool == { <<0, 0, 0>>, <<1, 0, 0>>, <<2, 0, 0>>, <<0, 0, 2>> }

RECURSIVE SeqsOf(_, _)
SeqsOf(S, n) ==
    IF n = 0 THEN { <<>> }
    ELSE LET shorter == SeqsOf(S, n - 1)
         IN  shorter \cup { Append(q, x) : q \in { r \in shorter : Len(r) = n - 1 },
                                          x \in S }

NoDedup == [resultCount |-> 0, resultVerts |-> <<>>, indicesMap |-> <<>>]

InitDedup ==
    /\ mem = [blocks |-> 0, meshes |-> 0]
    /\ heap = <<>>
    /\ tileData = EmptyTileData
    /\ meshes = <<>>
    /\ ppNavMesh = 0
    /\ buf = NoBuf
    /\ packed = NotPacked
    /\ pd = EmptyPd
    /\ pm = EmptyPm
    /\ ret = NoRet
    /\ context = NoContext
    /\ \E sv \in SeqsOf(VertexPool, MaxVerts) :
          flat = [present |-> TRUE, vertCount |-> Len(sv), sourceVerts |-> sv,
                  calls |-> 0, first |-> NoDedup, second |-> NoDedup]

\* the first run, on the caller's array
RemoveDuplicateVerts ==
    /\ flat.calls = 0
    /\ flat' = [flat EXCEPT !.calls = 1,
                  !.first = removeDuplicateVerts(flat.vertCount, flat.sourceVerts)]
    /\ UNCHANGED <<mem, heap, tileData, meshes, ppNavMesh, buf, packed, pd, pm,
                   ret, context>>

\* a second run, on the compacted array the first run produced
RemoveDuplicateVertsAgain ==
    /\ flat.calls = 1
    /\ flat' = [flat EXCEPT !.calls = 2,
                  !.second = removeDuplicateVerts(flat.first.resultCount,
                                                  flat.first.resultVerts)]
    /\ UNCHANGED <<mem, heap, tileData, meshes, ppNavMesh, buf, packed, pd, pm,
                   ret, context>>

NextDedup ==
    \/ RemoveDuplicateVerts
    \/ RemoveDuplicateVertsAgain

SpecDedup == InitDedup /\ [][NextDedup]_vars

--------------------------------------------------------------------------
(* Flattening a detail mesh (PolyMeshDetailEx.cpp)                         *)
(* rcPolyMeshDetail: meshes holds <<vertBase, vertCount, triBase,          *)
(* triCount>> per submesh, tris holds <<a, b, c, flags>> per triangle with *)
(* a, b, c local to the submesh, verts holds the vertices of all           *)
(* submeshes.  The caller's arrays hold vertsSize vertices and trisSize    *)
(* triangles (three indices each).                                         *)

MaxSubmeshes == 2    \* submeshes in a detail mesh
MaxOutVerts == 8     \* largest vertex capacity a caller offers
MaxOutTris == 4      \* largest triangle capacity a caller offers

\* an element of the caller's arrays, or a count, that no call has written
UnwrittenVertex == <<-1, -1, -1>>
UnwrittenInt == -1

\* a corner lookup that forgets the submesh's vertex base; C14 fails with it
LocalCorner(vBase, local) == local

\* "vBase + tri[i]": the source index of a triangle corner
CornerIndex(vBase, local) == vBase + local

\* the three writes "tris[pCurrentTri] = vertMap[vBase + tri[i]]"
RemapTriangle(vertMap, vBase, tri) ==
    << vertMap[CornerIndex(vBase, tri[1]) + 1],
       vertMap[CornerIndex(vBase, tri[2]) + 1],
       vertMap[CornerIndex(vBase, tri[3]) + 1] >>

\* the loops over iMesh and iTri: the indices written, in the order written
RECURSIVE FlattenTris(_, _, _, _, _)
FlattenTris(mesh, vertMap, iMesh, iTri, written) ==
    IF iMesh >= mesh.nmeshes THEN written
    ELSE LET vBase == mesh.meshes[iMesh + 1][1]
             tBase == mesh.meshes[iMesh + 1][3]
             tCount == mesh.meshes[iMesh + 1][4]
         IN  IF iTri >= tCount
             THEN FlattenTris(mesh, vertMap, iMesh + 1, 0, written)
             ELSE FlattenTris(mesh, vertMap, iMesh, iTri + 1,
                      written \o RemapTriangle(vertMap, vBase,
                                               mesh.tris[tBase + iTri + 1]))

\* the first n elements of an array are overwritten, the rest are kept
WriteInto(array, values, n) ==
    [ k \in 1..Len(array) |-> IF k <= n THEN values[k] ELSE array[k] ]

\* a capacity test that never refuses; C15 fails with it
NeverShort(vertsSize, resultVertCount) == FALSE

\* "if (vertsSize < resultVertCount)"
VertsShort(vertsSize, resultVertCount) == vertsSize < resultVertCount

\* rcpdFlattenMesh(detailMesh, verts, vertCount, vertsSize, tris, triCount,
\* trisSize).  hasArgs: no pointer argument is null.  The result names what
\* became of the caller's arrays and counts (out), how many vertices and
\* indices were written, and how often each temporary array was deleted.
rcpdFlattenMesh(hasArgs, mesh, out, vertsSize, trisSize) ==
    IF ~hasArgs \/ trisSize < mesh.ntris
    THEN [ok |-> FALSE, out |-> out, wrVerts |-> 0, wrTris |-> 0,
          scratch |-> FALSE, uniqueDeletes |-> 0, mapDeletes |-> 0]
    ELSE LET d == removeDuplicateVerts(mesh.nverts, mesh.verts)
         IN  IF VertsShort(vertsSize, d.resultCount)
             THEN [ok |-> FALSE, out |-> out, wrVerts |-> 0, wrTris |-> 0,
                   scratch |-> TRUE, uniqueDeletes |-> 0, mapDeletes |-> 0]
             ELSE LET written == FlattenTris(mesh, d.indicesMap, 0, 0, <<>>)
                  IN  [ok |-> TRUE,
                       out |-> [verts |-> WriteInto(out.verts, d.resultVerts,
                                                    d.resultCount),
                                vertCount |-> d.resultCount,
                                tris |-> WriteInto(out.tris, written,
                                                   Len(written)),
                                triCount |-> mesh.ntris],
                       wrVerts |-> d.resultCount, wrTris |-> Len(written),
                       scratch |-> TRUE, uniqueDeletes |-> 1, mapDeletes |-> 1]

--------------------------------------------------------------------------
(* SpecFlatten: rcpdFlattenMesh on detail meshes built from submeshes      *)

\* submeshes as <<vertices, triangles>>: two triangles whose first vertices
\* coincide within tolerance, a pair of vertices without a triangle, a quad
\* of two triangles, and an empty submesh
SubmeshPool ==
    { << << <<0, 0, 0>>, <<4, 0, 0>>, <<0, 4, 0>> >>, << <<0, 1, 2, 0>> >> >>,
      << << <<1, 0, 0>>, <<4, 4, 0>>, <<0, 4, 4>> >>, << <<0, 1, 2, 1>> >> >>,
      << << <<4, 0, 0>>, <<0, 0, 0>> >>, << >> >>,
      << << <<0, 4, 0>>, <<4, 0, 0>>, <<0, 0, 1>>, <<4, 4, 0>> >>,
         << <<0, 1, 2, 0>>, <<2, 1, 3, 0>> >> >>,
      << << >>, << >> >> }

\* the detail mesh that holds the submeshes subs one after the other
RECURSIVE MeshOf(_, _, _)
MeshOf(subs, n, mesh) ==
    IF n > Len(subs) THEN mesh
    ELSE LET sv == subs[n][1]
             st == subs[n][2]
         IN  MeshOf(subs, n + 1,
                 [verts |-> mesh.verts \o sv, nverts |-> mesh.nverts + Len(sv),
                  tris |-> mesh.tris \o st, ntris |-> mesh.ntris + Len(st),
                  meshes |-> Append(mesh.meshes,
                        <<mesh.nverts, Len(sv), mesh.ntris, Len(st)>>),
                  nmeshes |-> mesh.nmeshes + 1])

EmptyDetail ==
    [verts |-> <<>>, nverts |-> 0, tris |-> <<>>, ntris |-> 0,
     meshes |-> <<>>, nmeshes |-> 0]

DetailMeshes == { MeshOf(subs, 1, EmptyDetail) : subs \in SeqsOf(SubmeshPool, MaxSubmeshes) }

\* the caller's arrays and counts before the call
FreshOut(vertsSize, trisSize) ==
    [verts |-> [k \in 1..vertsSize |-> UnwrittenVertex],
     vertCount |-> UnwrittenInt,
     tris |-> [k \in 1..(3 * trisSize) |-> UnwrittenInt],
     triCount |-> UnwrittenInt]

NoFlatten ==
    [ok |-> FALSE, out |-> FreshOut(0, 0), wrVerts |-> 0, wrTris |-> 0,
     scratch |-> FALSE, uniqueDeletes |-> 0, mapDeletes |-> 0]

InitFlatten ==
    /\ mem = [blocks |-> 0, meshes |-> 0]
    /\ heap = <<>>
    /\ tileData = EmptyTileData
    /\ meshes = <<>>
    /\ ppNavMesh = 0
    /\ buf = NoBuf
    /\ packed = NotPacked
    /\ pd = EmptyPd
    /\ pm = EmptyPm
    /\ ret = NoRet
    /\ context = NoContext
    /\ \E m \in DetailMeshes, vs \in 0..MaxOutVerts, ts \in 0..MaxOutTris :
          flat = [present |-> TRUE, mesh |-> m, vertsSize |-> vs,
                  trisSize |-> ts, out |-> FreshOut(vs, ts), calls |-> 0,
                  hasArgs |-> TRUE, res |-> NoFlatten]

RcpdFlattenMesh ==
    /\ flat.calls = 0
    /\ \E hasArgs \in BOOLEAN :
          LET r == rcpdFlattenMesh(hasArgs, flat.mesh, flat.out,
                                   flat.vertsSize, flat.trisSize)
          IN  flat' = [flat EXCEPT !.calls = 1, !.hasArgs = hasArgs,
                                   !.out = r.out, !.res = r]
    /\ UNCHANGED <<mem, heap, tileData, meshes, ppNavMesh, buf, packed, pd, pm,
                   ret, context>>

NextFlatten == RcpdFlattenMesh

SpecFlatten == InitFlatten /\ [][NextFlatten]_vars

--------------------------------------------------------------------------
(* The message arena of nmgBuildContext (NMGen.h, BuildContext.cpp)        *)
(* mTextPool is a sequence of cells: 0 is NUL, a positive number a         *)
(* character, Unwritten a cell no call has stored into.  mMessages holds   *)
(* pool offsets (pEntry - mTextPool).  The sizes are scaled down: the code *)
(* has MAX_MESSAGES = 1024, MESSAGE_POOL_SIZE = 65536 and a logger buffer  *)
(* of 512 characters.                                                      *)

MAX_MESSAGES == 3
MESSAGE_POOL_SIZE == 8
MSG_SIZE == 4

\* a pool cell or table entry that has never been stored into
Unwritten == 0 - 1

\* nmgBuildContext::nmgBuildContext() followed by enableLog(logEnabled), as
\* nmbcAllocateContext does.  op, logged and wasReset are history: the last
\* call made, the messages handed to doLog since the last reset (counted up
\* to MAX_MESSAGES + 1), and whether a reset was the last change to the arena.
NewContext(logEnabled) ==
    [present |-> TRUE, logEnabled |-> logEnabled,
     mMessages |-> [i \in 1..MAX_MESSAGES |-> Unwritten], mMessageCount |-> 0,
     mTextPool |-> [i \in 1..MESSAGE_POOL_SIZE |-> Unwritten],
     mTextPoolSize |-> 0,
     op |-> "new", logged |-> 0, wasReset |-> FALSE]

\* a reset that forgets the write offset; C19 fails with it
ResetCountOnly(ctx) == [ctx EXCEPT !.mMessageCount = 0]

\* nmgBuildContext::doResetLog
doResetLog(ctx) == [ctx EXCEPT !.mMessageCount = 0, !.mTextPoolSize = 0]

\* a table test that is off by one; C17 fails with it
TableOverfull(count) == count > MAX_MESSAGES

\* "mMessageCount >= MAX_MESSAGES"
TableFull(count) == count >= MAX_MESSAGES

\* an entry that always starts at the head of the pool; C18 fails with it
PoolHead(size) == 0

\* "&mTextPool[mTextPoolSize]" as an offset into the pool
EntryOffset(size) == size

\* memcpy(pEntry, message, realLength): message is the NUL-terminated text
StoreBytes(pool, at, text, realLength) ==
    [ i \in 1..Len(pool) |->
        IF i > at /\ i <= at + realLength THEN (text \o <<0>>)[i - at]
        ELSE pool[i] ]

\* nmgBuildContext::doLog(category, message, messageLength)
doLog(ctx, message, messageLength) ==
    IF ~ctx.logEnabled \/ messageLength = 0 \/ TableFull(ctx.mMessageCount)
    THEN ctx
    ELSE LET remainingSpace == MESSAGE_POOL_SIZE - ctx.mTextPoolSize
         IN  IF remainingSpace < 1 THEN ctx
             ELSE LET realLength == Min(messageLength + 1, remainingSpace - 1)
                      pEntry == EntryOffset(ctx.mTextPoolSize)
                      copied == StoreBytes(ctx.mTextPool, pEntry, message,
                                           realLength)
                      \* pEntry[realLength - 1] = '\0'
                      closed == [copied EXCEPT ![pEntry + realLength] = 0]
                  IN  [ctx EXCEPT
                         !.mTextPool = closed,
                         !.mTextPoolSize = ctx.mTextPoolSize + realLength,
                         !.mMessages[ctx.mMessageCount + 1] = pEntry,
                         !.mMessageCount = ctx.mMessageCount + 1]

\* rcContext::log: formats the text into a buffer of MSG_SIZE characters and
\* hands it to doLog unless logging is disabled
rcLog(ctx, message) ==
    IF ~ctx.logEnabled THEN ctx
    ELSE LET len == Min(Len(message), MSG_SIZE - 1)
         IN  doLog(ctx, SubSeq(message, 1, len), len)

\* rcContext::resetLog
rcResetLog(ctx) == doResetLog(ctx)

\* rcContext::enableLog
rcEnableLog(ctx, state) == [ctx EXCEPT !.logEnabled = state]

\* nmgBuildContext::getMessageCount
getMessageCount(ctx) == ctx.mMessageCount

\* nmbcGetMessageCount(context)
nmbcGetMessageCount(hasContext, ctx) ==
    IF ~hasContext THEN 0 ELSE getMessageCount(ctx)

\* the text a reader finds at message i (1-based): the cells from its entry
\* up to the first NUL, or up to the end of the pool when there is none
RECURSIVE TextFrom(_, _)
TextFrom(pool, at) ==
    IF at >= Len(pool) THEN <<>>
    ELSE IF pool[at + 1] = 0 THEN <<>>
    ELSE <<pool[at + 1]>> \o TextFrom(pool, at + 1)

getMessage(ctx, i) == TextFrom(ctx.mTextPool, ctx.mMessages[i])

--------------------------------------------------------------------------
(* SpecLog: log, reset and enable calls on one build context               *)

\* texts handed to nmbcLog; the longest exceeds the logger's buffer
Messages == { <<>>, <<1>>, <<2>>, <<1, 2>>, <<2, 1, 2>>, <<1, 1, 1, 1>> }

InitLog ==
    /\ mem = [blocks |-> 0, meshes |-> 0]
    /\ heap = <<>>
    /\ tileData = EmptyTileData
    /\ meshes = <<>>
    /\ ppNavMesh = 0
    /\ buf = NoBuf
    /\ packed = NotPacked
    /\ pd = EmptyPd
    /\ pm = EmptyPm
    /\ ret = NoRet
    /\ flat = NoFlat
    /\ \E logEnabled \in BOOLEAN : context = NewContext(logEnabled)

\* nmbcLog(context, message)
NmbcLog ==
    /\ \E hasContext \in BOOLEAN, hasMessage \in BOOLEAN, message \in Messages :
          IF hasContext /\ hasMessage
          THEN LET c == rcLog(context, message)
                   handed == context.logEnabled /\ Len(message) > 0
               IN  context' = [c EXCEPT
                       !.op = "log",
                       !.logged = IF handed
                                  THEN Min(context.logged + 1, MAX_MESSAGES + 1)
                                  ELSE context.logged,
                       !.wasReset = IF c.mMessageCount # context.mMessageCount
                                    THEN FALSE ELSE context.wasReset]
          ELSE UNCHANGED context
    /\ UNCHANGED <<mem, heap, tileData, meshes, ppNavMesh, buf, packed, pd, pm,
                   ret, flat>>

\* nmbcResetLog(context)
NmbcResetLog ==
    /\ \E hasContext \in BOOLEAN :
          IF hasContext
          THEN context' = [rcResetLog(context) EXCEPT
                              !.op = "reset", !.logged = 0, !.wasReset = TRUE]
          ELSE UNCHANGED context
    /\ UNCHANGED <<mem, heap, tileData, meshes, ppNavMesh, buf, packed, pd, pm,
                   ret, flat>>

\* nmbcEnableLog(context, state)
NmbcEnableLog ==
    /\ \E hasContext \in BOOLEAN, state \in BOOLEAN :
          IF hasContext
          THEN context' = [rcEnableLog(context, state) EXCEPT !.op = "enable"]
          ELSE UNCHANGED context
    /\ UNCHANGED <<mem, heap, tileData, meshes, ppNavMesh, buf, packed, pd, pm,
                   ret, flat>>

NextLog ==
    \/ NmbcLog
    \/ NmbcResetLog
    \/ NmbcEnableLog

SpecLog == InitLog /\ [][NextLog]_vars

--------------------------------------------------------------------------
(* Properties of the de-duplication (SpecDedup)                            *)

Abs(x) == IF x < 0 THEN -x ELSE x

\* two vertices are equal within the tolerance on all three axes
WithinTolerance(u, v) == \A k \in 1..3 : Abs(u[k] - v[k]) <= NMG_TOLERANCE

SourceIndices == 1..flat.vertCount

\* the source vertices i and j (1-based) are within tolerance of each other
Close(i, j) == WithinTolerance(flat.sourceVerts[i], flat.sourceVerts[j])

\* on this input within-tolerance equality is an equivalence: no chain of
\* close vertices joins two vertices that are not close
ToleranceIsEquivalence ==
    \A i, j, k \in SourceIndices : Close(i, j) /\ Close(j, k) => Close(i, k)

\* the equivalence classes of the input indices
ToleranceClasses == { { j \in SourceIndices : Close(i, j) } : i \in SourceIndices }

\* the first run maps two indices to the same compacted index
SameMapping(i, j) == flat.first.indicesMap[i] = flat.first.indicesMap[j]

\* C11 (as stated): for every input vertex array and every two indices i, j,
\* indicesMap[i] = indicesMap[j] exactly when the source vertices i and j are
\* equal within NMG_TOLERANCE on all three coordinates, also when the input
\* holds a chain a ~ b ~ c with a and c not within tolerance.
C11_DedupMappingEquivalence ==
    flat.present /\ flat.calls >= 1 =>
        \A i, j \in SourceIndices : SameMapping(i, j) <=> Close(i, j)

\* C11 (amended): the equivalence holds for every input on which
\* within-tolerance equality is transitive; on every input, two indices with
\* the same mapping are both within tolerance of the emitted vertex they
\* are mapped to.
C11_DedupMappingOnEquivalence ==
    flat.present /\ flat.calls >= 1 =>
        /\ ToleranceIsEquivalence =>
               \A i, j \in SourceIndices : SameMapping(i, j) <=> Close(i, j)
        /\ \A i, j \in SourceIndices :
               SameMapping(i, j) =>
                   LET r == flat.first.resultVerts[flat.first.indicesMap[i] + 1]
                   IN  /\ WithinTolerance(flat.sourceVerts[i], r)
                       /\ WithinTolerance(flat.sourceVerts[j], r)

\* an input with an equivalence was mapped: two vertices that differ but are
\* within tolerance, and one that is not within tolerance of them
C11_TransitiveInputMapped ==
    /\ flat.present /\ flat.calls >= 1
    /\ ToleranceIsEquivalence
    /\ \E i, j, k \in SourceIndices :
          /\ flat.sourceVerts[i] # flat.sourceVerts[j]
          /\ Close(i, j) /\ SameMapping(i, j)
          /\ ~Close(i, k) /\ ~SameMapping(i, k)

\* C12: when within-tolerance equality is an equivalence on the vertex set,
\* removeDuplicateVerts returns the number of equivalence classes, emits
\* exactly one vertex per class, and maps two indices to the same compacted
\* index exactly when they are in the same class.
C12_DedupClassCount ==
    flat.present /\ flat.calls >= 1 /\ ToleranceIsEquivalence =>
        /\ flat.first.resultCount = Cardinality(ToleranceClasses)
        /\ Len(flat.first.resultVerts) = flat.first.resultCount
        /\ \A c \in ToleranceClasses :
               Cardinality({ n \in 1..flat.first.resultCount :
                   \E i \in c : WithinTolerance(flat.first.resultVerts[n],
                                                flat.sourceVerts[i]) }) = 1
        /\ \A i, j \in SourceIndices :
               SameMapping(i, j) <=> (\E c \in ToleranceClasses : i \in c /\ j \in c)

\* a full-length input with two classes, each with more than one member
C12_TwoClassesCompacted ==
    /\ flat.present /\ flat.calls >= 1
    /\ ToleranceIsEquivalence
    /\ flat.vertCount = MaxVerts
    /\ flat.first.resultCount = 2
    /\ \A c \in ToleranceClasses : Cardinality(c) = 2

\* C13: running removeDuplicateVerts on the compacted output of a previous
\* run returns the same vertex count, the same vertices in the same order
\* and the identity mapping.
C13_DedupIdempotence ==
    flat.present /\ flat.calls = 2 =>
        /\ flat.second.resultCount = flat.first.resultCount
        /\ flat.second.resultVerts = flat.first.resultVerts
        /\ flat.second.indicesMap = [n \in 1..flat.first.resultCount |-> n - 1]

\* the second run was made on an output that the first run had compacted from
\* a chain of close vertices
C13_SecondRunOnCompacted ==
    /\ flat.present /\ flat.calls = 2
    /\ ~ToleranceIsEquivalence
    /\ flat.first.resultCount >= 2
    /\ flat.first.resultCount < flat.vertCount

\* how many vertices the first run had emitted before source index i (1-based)
EmittedBefore(i) ==
    Cardinality({ flat.first.indicesMap[j] : j \in 1..(i - 1) })

\* the emitted indices (0-based), among those emitted before source index i,
\* whose vertex is within tolerance of source vertex i
MatchesBefore(i) ==
    { n \in 0..(EmittedBefore(i) - 1) :
        WithinTolerance(flat.sourceVerts[i], flat.first.resultVerts[n + 1]) }

\* the first source index (1-based) mapped to emitted index n (0-based)
FirstOccurrence(n) ==
    CHOOSE i \in SourceIndices :
        /\ flat.first.indicesMap[i] = n
        /\ \A j \in 1..(i - 1) : flat.first.indicesMap[j] # n

\* C27: removeDuplicateVerts takes the source vertices in index order and
\* gives each the smallest index of an already emitted vertex within
\* tolerance on all three coordinates, or else appends it unchanged under the
\* next index; so indicesMap[i] <= i, the result count is at most vertCount,
\* emitted vertices stand in order of first occurrence, no two emitted
\* vertices are within tolerance, and without duplicates the output is the
\* input with the identity mapping.
C27_DedupFirstOccurrenceOrder ==
    flat.present /\ flat.calls >= 1 =>
        /\ \A i \in SourceIndices :
              /\ flat.first.indicesMap[i] <= i - 1
              /\ IF MatchesBefore(i) # {}
                 THEN /\ flat.first.indicesMap[i] \in MatchesBefore(i)
                      /\ \A n \in MatchesBefore(i) : flat.first.indicesMap[i] <= n
                 ELSE /\ flat.first.indicesMap[i] = EmittedBefore(i)
                      /\ flat.first.resultVerts[EmittedBefore(i) + 1]
                            = flat.sourceVerts[i]
        /\ flat.first.resultCount <= flat.vertCount
        /\ flat.first.resultCount = Len(flat.first.resultVerts)
        /\ \A n \in 0..(flat.first.resultCount - 1) :
              /\ flat.first.resultVerts[n + 1] = flat.sourceVerts[FirstOccurrence(n)]
              /\ \A m \in 0..(n - 1) :
                    /\ FirstOccurrence(m) < FirstOccurrence(n)
                    /\ ~WithinTolerance(flat.first.resultVerts[m + 1],
                                        flat.first.resultVerts[n + 1])
        /\ (\A i, j \in SourceIndices : i # j => ~Close(i, j)) =>
              /\ flat.first.resultVerts = flat.sourceVerts
              /\ flat.first.indicesMap = [i \in SourceIndices |-> i - 1]

\* a vertex within tolerance of two emitted vertices was given the smaller index
C27_SmallestMatchTaken ==
    /\ flat.present /\ flat.calls >= 1
    /\ \E i \in SourceIndices :
          /\ Cardinality(MatchesBefore(i)) >= 2
          /\ flat.first.indicesMap[i] = 0
          /\ 1 \in MatchesBefore(i)

--------------------------------------------------------------------------
(* Properties of the flattening (SpecFlatten)                              *)
(* The detail meshes are well formed: each submesh's vertex base plus a    *)
(* local index is below nverts, and the triangle counts sum to ntris.      *)

\* the call was made with all its pointer arguments
FlattenCalled == flat.present /\ flat.calls = 1 /\ flat.hasArgs

\* the compacted vertices of the mesh and the mapping onto them
Compacted == removeDuplicateVerts(flat.mesh.nverts, flat.mesh.verts)

\* how many triangles the submeshes before submesh m (1-based) hold
RECURSIVE TrisBefore(_)
TrisBefore(m) == IF m = 1 THEN 0 ELSE TrisBefore(m - 1) + flat.mesh.meshes[m - 1][4]

\* two submeshes of 3 vertices and 1 triangle each; the first vertex of the
\* second is within tolerance of the first vertex of the first
SharedVertexMesh ==
    [verts |-> << <<0, 0, 0>>, <<4, 0, 0>>, <<0, 4, 0>>,
                  <<1, 0, 0>>, <<4, 4, 0>>, <<0, 4, 4>> >>, nverts |-> 6,
     tris |-> << <<0, 1, 2, 0>>, <<0, 1, 2, 1>> >>, ntris |-> 2,
     meshes |-> << <<0, 3, 0, 1>>, <<3, 3, 1, 1>> >>, nmeshes |-> 2]

\* C14: for a well-formed detail mesh and sufficient capacities,
\* rcpdFlattenMesh returns true with vertCount the number of compacted
\* vertices and triCount = ntris; every corner of every triangle, in submesh
\* order, is written as the compacted index of source vertex (vertex base +
\* local index), below vertCount.  Two triangles that share one coincident
\* vertex give 5 vertices and 2 triangles that name it by the same index.
C14_FlattenRemapping ==
    FlattenCalled /\ flat.vertsSize >= Compacted.resultCount
                  /\ flat.trisSize >= flat.mesh.ntris =>
        /\ flat.res.ok
        /\ flat.out.vertCount = Compacted.resultCount
        /\ flat.out.triCount = flat.mesh.ntris
        /\ \A m \in 1..flat.mesh.nmeshes :
             \A t \in 0..(flat.mesh.meshes[m][4] - 1) :
               \A c \in 1..3 :
                 LET tri == flat.mesh.tris[flat.mesh.meshes[m][3] + t + 1]
                     source == flat.mesh.meshes[m][1] + tri[c]
                     o == flat.out.tris[3 * (TrisBefore(m) + t) + c]
                 IN  /\ o = Compacted.indicesMap[source + 1]
                     /\ o >= 0 /\ o < flat.out.vertCount
        /\ flat.mesh = SharedVertexMesh =>
               /\ flat.out.vertCount = 5
               /\ flat.out.triCount = 2
               /\ SubSeq(flat.out.tris, 1, 6) = <<0, 1, 2, 0, 3, 4>>

\* the two triangles with a shared vertex were flattened
C14_SharedVertexFlattened ==
    /\ FlattenCalled
    /\ flat.mesh = SharedVertexMesh
    /\ flat.res.ok

--------------------------------------------------------------------------
(* Properties of the message arena (SpecLog)                               *)

\* what a log call may store into: the counts, the pool and the table
Arena(ctx) ==
    <<ctx.mMessageCount, ctx.mTextPoolSize, ctx.mTextPool, ctx.mMessages>>

\* the step is a call of nmbcLog (or leaves everything as a log call left it)
LogStep == context'.op = "log"

\* C16: after any sequence of log and reset calls, 0 <= message count <=
\* MAX_MESSAGES and 0 <= write offset <= MESSAGE_POOL_SIZE, and every
\* recorded message starts inside the pool below the write offset and has a
\* NUL at or after its start and below the write offset.
C16_MessageArenaBounds ==
    context.present =>
        /\ 0 <= context.mMessageCount
        /\ context.mMessageCount <= MAX_MESSAGES
        /\ 0 <= context.mTextPoolSize
        /\ context.mTextPoolSize <= MESSAGE_POOL_SIZE
        /\ \A i \in 1..context.mMessageCount :
              /\ context.mMessages[i] >= 0
              /\ context.mMessages[i] < MESSAGE_POOL_SIZE
              /\ context.mMessages[i] < context.mTextPoolSize
              /\ \E at \in context.mMessages[i]..(context.mTextPoolSize - 1) :
                    context.mTextPool[at + 1] = 0

\* C17: a log call made when the message count equals MAX_MESSAGES, or the
\* remaining pool space is below the margin of one byte, or logging is
\* disabled, changes neither the count, the write offset, the pool nor the
\* pointer table; and once more than MAX_MESSAGES messages were logged after
\* a reset the message count is MAX_MESSAGES.
C17_SaturationAndDisabledMode ==
    /\ [][ LogStep /\ ( \/ context.mMessageCount = MAX_MESSAGES
                        \/ MESSAGE_POOL_SIZE - context.mTextPoolSize < 1
                        \/ ~context.logEnabled )
             => Arena(context') = Arena(context) ]_vars
    /\ [](context.present /\ context.logged > MAX_MESSAGES
             => context.mMessageCount = MAX_MESSAGES)

\* more than MAX_MESSAGES messages were logged since the last reset
C17_LoggedPastTheTable ==
    /\ context.present
    /\ context.op = "log"
    /\ context.logged > MAX_MESSAGES
    /\ context.mMessageCount = MAX_MESSAGES

\* C18: a log call changes no byte of a message stored before it and no
\* earlier entry of the pointer table, at every fill level of the pool, also
\* when its own text is cut short and when one byte of pool space is left;
\* every earlier message reads back as before.
C18_PriorEntriesKept ==
    [][ LogStep =>
          /\ \A i \in 1..context.mMessageCount :
                /\ context'.mMessages[i] = context.mMessages[i]
                /\ getMessage(context', i) = getMessage(context, i)
          /\ \A at \in 0..(context.mTextPoolSize - 1) :
                context'.mTextPool[at + 1] = context.mTextPool[at + 1] ]_vars

\* a message was logged after an earlier one, with one byte of pool space left
C18_LoggedWithOneByteLeft ==
    /\ context.present
    /\ context.op = "log"
    /\ context.mMessageCount >= 2
    /\ context.mTextPoolSize = MESSAGE_POOL_SIZE - 1
    /\ context.mMessages[context.mMessageCount] = context.mTextPoolSize

\* C19: after a reset, from any arena state, the message count and the write
\* offset are 0 and nmbcGetMessageCount returns 0 until the next log; the
\* next accepted log call stores its message at pool offset 0 as message 0.
C19_ResetEmptiesArena ==
    /\ [](context.present /\ context.wasReset =>
             /\ context.mMessageCount = 0
             /\ context.mTextPoolSize = 0
             /\ nmbcGetMessageCount(TRUE, context) = 0)
    /\ [][ LogStep /\ context.wasReset
                   /\ context'.mMessageCount # context.mMessageCount =>
             /\ context'.mMessageCount = 1
             /\ context'.mMessages[1] = 0
             /\ context'.mTextPoolSize > 0
             /\ context'.mTextPool[1] # Unwritten ]_vars

\* a message was accepted after the reset of an arena that held two or more
C19_LoggedAfterReset ==
    /\ context.present
    /\ context.op = "log"
    /\ context.mMessageCount = 1
    /\ context.mMessages[1] = 0
    /\ context.mMessages[2] # Unwritten

\* C30: on every return path of rcpdFlattenMesh taken after the compacted
\* vertex array and the index map were allocated, on success and on the
\* vertex-capacity failure alike, each of the two is released exactly once
\* before the function returns.
C30_FlattenScratchReleased ==
    flat.present /\ flat.calls = 1 /\ flat.res.scratch =>
        /\ flat.res.uniqueDeletes = 1
        /\ flat.res.mapDeletes = 1

--------------------------------------------------------------------------
(* Properties of container teardown and payload ownership                 *)

\* C29: dtnmFreeNavMesh called with a null handle pointer, or with a handle
\* pointer that holds a null container, for either value of freeTiles,
\* returns having dereferenced nothing and released nothing.
C29_TeardownGuard ==
    ret.op = "dtnmFreeNavMesh" /\ ret.pre = 0 =>
        /\ ret.status = "DONE"
        /\ ret.freed = <<>>

\* the container holds block p as the payload of a tile it owns
ContainerOwns(m, p) ==
    \E s \in LiveSlots(m) : m.tiles[s].data = p /\ OwnedByTile(m.tiles[s])

\* C22: after a successful dtnmBuildDTNavMeshFromRaw, for either value of
\* safeStorage, every payload copy it allocated is owned by the container;
\* so after dtnmFreeNavMesh with freeTiles false on that container every
\* payload block has been released exactly once and none is left allocated.
C22_UnpackOwnershipHandOff ==
    /\ (ret.op = "dtnmBuildDTNavMeshFromRaw" /\ ret.ok) =>
            \A p \in ret.allocs : ContainerOwns(meshes[ppNavMesh], p)
    /\ (ret.op = "dtnmFreeNavMesh" /\ ret.pre # 0 /\ ret.arg = 0) =>
            \A p \in 1..Len(heap) : ~heap[p].live /\ heap[p].frees = 1

--------------------------------------------------------------------------
(* Properties of header-only inspection                                   *)

\* the arguments of the last dtnmGetTileDataHeader call fail its first test
InvalidHeaderArgs == ~ret.arg.hasData \/ buf.size = 0 \/ ~ret.arg.hasResult

\* C28: dtnmGetTileDataHeader fails with the invalid-parameter code for a null
\* buffer, a zero size or a null result; with the wrong-magic code when the
\* buffer's magic differs from DT_NAVMESH_MAGIC, whatever its version; with
\* the wrong-version code when the magic matches and the version differs; a
\* failure leaves the result header as it was; and it succeeds, with a copy
\* of the buffer's header in the result, exactly when magic and version match.
C28_HeaderInspectionOutcomes ==
    ret.op = "dtnmGetTileDataHeader" =>
        LET d == buf.data
            n == Len(d)
        IN  /\ InvalidHeaderArgs => ret.status = "INVALID_PARAM"
            /\ (~InvalidHeaderArgs /\ n >= 1 /\ d[1] # DT_NAVMESH_MAGIC) =>
                    ret.status = "WRONG_MAGIC"
            /\ (~InvalidHeaderArgs /\ n >= 2 /\ d[1] = DT_NAVMESH_MAGIC
                    /\ d[2] # DT_NAVMESH_VERSION) =>
                    ret.status = "WRONG_VERSION"
            /\ (~InvalidHeaderArgs /\ n >= MeshHeaderSize
                    /\ d[1] = DT_NAVMESH_MAGIC /\ d[2] = DT_NAVMESH_VERSION) =>
                    /\ ret.ok
                    /\ ret.status = "SUCCESS"
                    /\ ret.pre = SubSeq(d, 1, MeshHeaderSize)
            /\ ~ret.ok =>
                    /\ ret.pre = <<>>
                    /\ ret.status \in {"INVALID_PARAM", "WRONG_MAGIC", "WRONG_VERSION"}
            /\ ret.ok =>
                    /\ ~InvalidHeaderArgs
                    /\ n >= 1 => d[1] = DT_NAVMESH_MAGIC
                    /\ n >= 2 => d[2] = DT_NAVMESH_VERSION

\* a buffer whose magic and version are both foreign was refused for its magic
C28_MagicTestedFirst ==
    /\ ret.op = "dtnmGetTileDataHeader"
    /\ ret.status = "WRONG_MAGIC"
    /\ Len(buf.data) >= 2
    /\ buf.data[2] # DT_NAVMESH_VERSION

--------------------------------------------------------------------------
(* Properties of the archive layout                                       *)

\* the records of the live tiles of slots s.. in slot order: reference, payload
\* size, payload bytes
RECURSIVE LiveRecords(_, _, _)
LiveRecords(m, h, s) ==
    IF s > m.maxTiles THEN <<>>
    ELSE (IF s \in LiveSlots(m)
          THEN <<dtGetTileRef(m, s), m.tiles[s].dataSize>> \o h[m.tiles[s].data].bytes
          ELSE <<>>)
         \o LiveRecords(m, h, s + 1)

\* the archive of container m: top header, then the records
ExpectedArchive(m, h) ==
    <<RCN_NAVMESH_VERSION, Cardinality(LiveSlots(m)), m.orig, m.maxTiles>>
        \o LiveRecords(m, h, 1)

\* C23: dtnmGetNavMeshRawData on a container (its allocation succeeding)
\* returns a buffer that is the top header carrying the number of live tiles,
\* followed by one record per live tile in slot order (the tile's reference,
\* its payload size, its payload bytes), empty slots contributing nothing;
\* the reported dataSize is the length of exactly that, and is the number of
\* bytes written.
C23_PackLayout ==
    (ret.op = "dtnmGetNavMeshRawData" /\ ppNavMesh # 0 /\ ret.arg.allocOk) =>
        /\ ret.status = "DONE"
        /\ buf.data = ExpectedArchive(meshes[ppNavMesh], heap)
        /\ buf.size = Len(buf.data)
        /\ ret.arg.written = buf.size

--------------------------------------------------------------------------
(* Properties of write-once mesh records                                  *)

\* the deserializers of mesh records
MeshBuilders == {"rcpdBuildFromMeshData", "rcpmBuildSerializedData"}

\* C26: once rcpdBuildFromMeshData or rcpmBuildSerializedData has succeeded
\* on a record, whatever the accepted buffer (a header with zero submeshes or
\* zero polygons included), a deserialize call into the same record made
\* before the record is released returns false and leaves the record, its
\* arrays and its ownership tag as they were.
C26_WriteOnceMeshRecords ==
    [][ (ret.op \in MeshBuilders /\ ret.ok /\ ret'.op = ret.op /\ ret' # ret) =>
            /\ ~ret'.ok
            /\ pd' = pd
            /\ pm' = pm
            /\ heap' = heap ]_vars

--------------------------------------------------------------------------
(* Properties of the mesh record serializers (SpecSerialize)              *)

SerializerOps == {"rcpdGetSerializedData", "rcpmGetSerializedData"}

\* the capacity the serializer of the record in hand tests
RecordCapacity == IF buf.kind = "detail" THEN pd.maxmeshes ELSE pm.maxpolys

\* elements of an array the last serializer call had to write
Expected(max, n) == IF ret.arg.includeBuffer THEN max ELSE n

\* C21: a serializer call on a record whose capacity (maxmeshes / maxpolys)
\* is zero, or whose output allocation fails, returns false and leaves the
\* output pointer and size as they were.  Every other call (no null
\* argument) returns true; it wrote each array at full capacity when
\* includeBuffer is true and at its populated count when it is false, the
\* capacity fields of the header are the counts written, and dataSize is the
\* header size plus the sizes of the arrays written.
C21_SerializeSizing ==
    /\ [][ (ret'.op \in SerializerOps
              /\ (RecordCapacity = 0 \/ ~ret'.arg.allocOk)) =>
                 ~ret'.ok /\ buf' = buf ]_vars
    /\ [](ret.op = "rcpdGetSerializedData" /\ ret.arg.hasArgs
            /\ ret.arg.allocOk /\ pd.maxmeshes # 0 =>
             LET d == buf.data
                 mc == Expected(pd.maxmeshes, pd.nmeshes)
                 vc == Expected(pd.maxverts, pd.nverts)
                 tc == Expected(pd.maxtris, pd.ntris)
             IN  /\ ret.ok
                 /\ SubSeq(d, 1, PdHeaderSize) =
                        <<pd.nmeshes, pd.nverts, pd.ntris, mc, vc, tc,
                          NMG_POLYMESHDETAIL_VERSION>>
                 /\ buf.size = PdHeaderSize + 4 * mc + 4 * tc + 3 * vc
                 /\ Len(d) = buf.size)
    /\ [](ret.op = "rcpmGetSerializedData" /\ ret.arg.hasArgs
            /\ ret.arg.allocOk /\ pm.maxpolys # 0 =>
             LET d == buf.data
                 pc == Expected(pm.maxpolys, pm.npolys)
                 vc == Expected(ret.arg.maxVerts, pm.nverts)
             IN  /\ ret.ok
                 /\ d[1] = pm.nverts /\ d[2] = pm.npolys
                 /\ d[3] = pc /\ d[14] = vc
                 /\ d[PmHeaderSize] = NMG_POLYMESH_VERSION
                 /\ buf.size = PmHeaderSize + 3 * vc + 2 * pc * pm.nvp
                                + 2 * pc + pc
                 /\ Len(d) = buf.size)

\* a record with spare capacity was serialized without it
C21_SpareCapacityLeftOut ==
    /\ ret.op = "rcpdGetSerializedData"
    /\ ret.ok
    /\ ~ret.arg.includeBuffer
    /\ pd.nmeshes < pd.maxmeshes
    /\ pd.nverts < pd.maxverts
    /\ buf.size = PdHeaderSize + 8 * pd.nmeshes + 3 * pd.nverts

\* rcpdBuildFromMeshData / rcpmBuildSerializedData applied to the buffer in
\* hand by a caller with an empty record and an empty heap, nothing failing
\* in its environment
RebuiltPd(tag, g) ==
    rcpdBuildFromMeshData(buf, [EmptyPd EXCEPT !.resourcetype = tag], <<>>,
                          TRUE, TRUE, 3, g)

RebuiltPm(g) ==
    rcpmBuildSerializedData(buf, EmptyPm, <<>>, TRUE, TRUE, TRUE, 5, g)

\* array `written` holds n cells, those of `source` as far as source has them
SameCells(written, source, n) ==
    /\ Len(written) = n
    /\ \A k \in 1..Min(n, Len(source)) : written[k] = source[k]

\* C24: whenever a serializer has succeeded on a record, with either value
\* of includeBuffer, deserializing the buffer it returned into an empty
\* record succeeds, the detail record is tagged locally owned, the populated
\* counts are those of the source, the capacities are the counts that were
\* written, and every array holds the cells of the source array for every
\* element written.
C24_MeshRecordRoundTrip ==
    /\ (ret.op = "rcpdGetSerializedData" /\ ret.ok) =>
          \A tag \in Tags, g \in Garbage :
             LET r == RebuiltPd(tag, g)
                 mc == Expected(pd.maxmeshes, pd.nmeshes)
                 vc == Expected(pd.maxverts, pd.nverts)
                 tc == Expected(pd.maxtris, pd.ntris)
             IN  /\ r.ret.ok
                 /\ r.pd.resourcetype = NMG_ALLOC_TYPE_LOCAL
                 /\ r.pd.nmeshes = pd.nmeshes
                 /\ r.pd.nverts = pd.nverts
                 /\ r.pd.ntris = pd.ntris
                 /\ r.pd.maxmeshes = mc
                 /\ r.pd.maxverts = vc
                 /\ r.pd.maxtris = tc
                 /\ SameCells(r.heap[r.pd.meshes].bytes, heap[pd.meshes].bytes, 4 * mc)
                 /\ SameCells(r.heap[r.pd.tris].bytes, heap[pd.tris].bytes, 4 * tc)
                 /\ SameCells(r.heap[r.pd.verts].bytes, heap[pd.verts].bytes, 3 * vc)
    /\ (ret.op = "rcpmGetSerializedData" /\ ret.ok) =>
          \A g \in Garbage :
             LET r == RebuiltPm(g)
                 pc == Expected(pm.maxpolys, pm.npolys)
                 vc == Expected(ret.arg.maxVerts, pm.nverts)
             IN  /\ r.ret.ok
                 /\ r.pm.nverts = pm.nverts
                 /\ r.pm.npolys = pm.npolys
                 /\ r.pm.nvp = pm.nvp
                 /\ r.pm.geom = pm.geom
                 /\ r.pm.borderSize = pm.borderSize
                 /\ r.pm.maxpolys = pc
                 /\ r.ret.arg.out = <<vc>> \o ret.arg.walkable
                 /\ SameCells(r.heap[r.pm.verts].bytes, heap[pm.verts].bytes, 3 * vc)
                 /\ SameCells(r.heap[r.pm.polys].bytes, heap[pm.polys].bytes,
                              2 * pc * pm.nvp)
                 /\ SameCells(r.heap[r.pm.regs].bytes, heap[pm.regs].bytes, pc)
                 /\ SameCells(r.heap[r.pm.flags].bytes, heap[pm.flags].bytes, pc)
                 /\ SameCells(r.heap[r.pm.areas].bytes, heap[pm.areas].bytes, pc)

\* a detail record with two sub-meshes, vertices and spare capacity was
\* serialized with its spare capacity
C24_FullCapacitySerialized ==
    /\ ret.op = "rcpdGetSerializedData"
    /\ ret.ok
    /\ ret.arg.includeBuffer
    /\ pd.nmeshes >= 1
    /\ pd.maxmeshes > pd.nmeshes
    /\ pd.maxverts >= 1

\* C25: in every header a serializer writes, for every record, either
\* includeBuffer and every maxVerts the caller passes (among them the value
\* getMaxVerts computes), and in every record a successful deserialization
\* of such a buffer produces, each populated count is at most the capacity
\* of its array.
C25_PopulatedWithinCapacity ==
    /\ (ret.op = "rcpdGetSerializedData" /\ ret.ok) =>
          /\ LET d == buf.data
             IN  d[1] <= d[4] /\ d[2] <= d[5] /\ d[3] <= d[6]
          /\ \A tag \in Tags, g \in Garbage :
                LET r == RebuiltPd(tag, g)
                IN  r.ret.ok =>
                       /\ r.pd.nmeshes <= r.pd.maxmeshes
                       /\ r.pd.nverts <= r.pd.maxverts
                       /\ r.pd.ntris <= r.pd.maxtris
    /\ (ret.op = "rcpmGetSerializedData" /\ ret.ok) =>
          /\ LET d == buf.data
             IN  d[1] <= d[14] /\ d[2] <= d[3]
          /\ \A g \in Garbage :
                LET r == RebuiltPm(g)
                IN  r.ret.ok =>
                       /\ r.pm.npolys <= r.pm.maxpolys
                       /\ r.pm.nverts <= r.ret.arg.out[1]

==========================================================================
